---- MODULE Spec2Model ----
(***************************************************************************)
(* A model of the collaborative-object core of radicle-link (crate `cob`): *)
(* the schema-validated automerge wrapper, the change graph walk and its   *)
(* evaluation, the file system cache, and the create/retrieve/update       *)
(* operations of lib.rs.                                                   *)
(*                                                                         *)
(* Bytes are modelled as sequences of changes.  One automerge change is a  *)
(* record [op, kind]: `op` is the position of the change in the Lamport    *)
(* order of the document and `kind` says what the change carries           *)
(*   "str"           sets the key `name` to a string,                      *)
(*   "num"           sets the key `name` to a number,                      *)
(*   "malformed"     bytes which automerge::Change::try_from rejects,      *)
(*   "inapplicable"  a well-formed change which Backend::apply_changes     *)
(*                   rejects.                                              *)
(* The document is a last-writer-wins register: its JSON projection is the *)
(* applied change with the largest `op`.                                   *)
(***************************************************************************)
EXTENDS Integers, Sequences, FiniteSets, TLC

VARIABLES
    va,         \* SpecVA: the ValidatedAutomerge under test
    vaPrev,     \* SpecVA: its value immediately before the last propose_change
    vaLast,     \* SpecVA: [bytes, err] of the last propose_change
    disk,       \* Spec: the cache directory of one object id: lock file and entry
    pc,         \* Spec: where each process is inside load or put
    arg,        \* Spec: the arguments of the call each process is in
    attempts,   \* Spec: acquire_lock's counter of failed attempts
    held,       \* Spec: whether the call holds a LockFile
    rd,         \* Spec: what a load has read from the files so far
    hot,        \* Spec: each process's hot_cache entry for the object
    ret,        \* Spec: what each process's last call returned
    log,        \* Spec: history of the run (completed puts, I/O errors, calls)
    ev,         \* SpecEval: the walk and the evaluation of one change graph
    ob,         \* SpecObj: repository, references and cache of one object
    nc,         \* SpecNoOp: the cache directory and the calls made on a NoOpCache
    srv,        \* SpecServer: a MortalServer, its task stream, its tasks and the clock
    hd,         \* SpecHeads: one call of default_branch_head on a repository
    sock,       \* SpecTransport: a socket with a MessageWriter and a MessageReader
    au          \* SpecAuthor: the author checks evaluate has made, with their inputs

vaVars == <<va, vaPrev, vaLast>>
cacheVars == <<disk, pc, arg, attempts, held, rd, hot, ret, log>>
vars == <<vaVars, cacheVars, ev, ob, nc, srv, hd, sock, au>>

otherThanCache == <<vaVars, ev, ob, nc, srv, hd, sock, au>>
otherThanVA == <<cacheVars, ev, ob, nc, srv, hd, sock, au>>
otherThanEval == <<vaVars, cacheVars, ob, nc, srv, hd, sock, au>>
otherThanObj == <<vaVars, cacheVars, ev, nc, srv, hd, sock, au>>
otherThanNoOp == <<vaVars, cacheVars, ev, ob, srv, hd, sock, au>>
otherThanServer == <<vaVars, cacheVars, ev, ob, nc, hd, sock, au>>
otherThanHeads == <<vaVars, cacheVars, ev, ob, nc, srv, sock, au>>
otherThanTransport == <<vaVars, cacheVars, ev, ob, nc, srv, hd, au>>
otherThanAuthor == <<vaVars, cacheVars, ev, ob, nc, srv, hd, sock>>

(***************************************************************************)
(* Bounds                                                                  *)
(***************************************************************************)
MaxOp == 2          \* changes carry op numbers 1..MaxOp
MaxHistory == 3     \* propose_change is called while valid_history is shorter

(***************************************************************************)
(* automerge, as the wrapper uses it                                       *)
(***************************************************************************)
Kinds == {"str", "num", "malformed", "inapplicable"}

Changes == [op : 1..MaxOp, kind : Kinds]

\* The JSON projection of the empty document: the key `name` is absent.
EmptyValue == [op |-> 0, kind |-> "none"]

\* automerge::Backend::new()
BackendNew == [applied |-> {}, residue |-> {}]

\* automerge::Change::try_from(change_bytes)
ChangeTryFrom(c) == c.kind # "malformed"

\* Backend::apply_changes(vec![change]) mutates the backend in place.  A change
\* it accepts is applied (a change already applied is accepted and changes
\* nothing).  For a change it rejects the library promises nothing about the
\* backend it leaves behind: either untouched, or holding the part of the
\* change recorded before the failure.
ApplyChanges(backend, c) ==
    IF c.kind = "inapplicable"
    THEN { [ok |-> FALSE, backend |-> backend],
           [ok |-> FALSE, backend |-> [backend EXCEPT !.residue = @ \cup {c}]] }
    ELSE { [ok |-> TRUE, backend |-> [backend EXCEPT !.applied = @ \cup {c}]] }

\* Backend::get_patch / the patch returned by apply_changes, as the frontend
\* sees it: the register's winning write.
GetPatch(backend) ==
    IF backend.applied = {} THEN EmptyValue
    ELSE CHOOSE c \in backend.applied : \A d \in backend.applied : d.op <= c.op

RECURSIVE SortedSeq(_)
SortedSeq(S) ==
    IF S = {} THEN << >>
    ELSE LET c == CHOOSE x \in S : \A y \in S : x.op <= y.op
         IN <<c>> \o SortedSeq(S \ {c})

\* Backend::save(): the canonical serialisation of what the backend holds.
BackendSave(backend) == SortedSeq(backend.applied \cup backend.residue)

Range(s) == { s[i] : i \in 1..Len(s) }

\* Backend::load(history)
BackendLoadOk(bytes) == \A c \in Range(bytes) : c.kind \in {"str", "num"}
BackendLoad(bytes) == [applied |-> Range(bytes), residue |-> {}]

(***************************************************************************)
(* Schema (schema.rs is not part of the sources; validation is modelled    *)
(* from the concrete scenario of the specification)                        *)
(***************************************************************************)
Schemas == {"NameString", "NameAny"}

\* Schema::validate(&value)
SchemaValidate(schema, value) ==
    IF schema = "NameString" THEN value.kind = "str"
    ELSE value.kind \in {"str", "num"}

(***************************************************************************)
(* ValidatedAutomerge                                                      *)
(***************************************************************************)
\* ValidatedAutomerge::new(schema)
VANew(schema) ==
    [backend |-> BackendNew, frontend |-> EmptyValue, schema |-> schema,
     valid_history |-> << >>]

\* ValidatedAutomerge::new_with_history(schema, history)
VANewWithHistory(schema, history) ==
    [backend |-> BackendLoad(history), frontend |-> GetPatch(BackendLoad(history)),
     schema |-> schema, valid_history |-> history]

\* ValidatedAutomerge::reset(old_backend)
VAReset(v, old_backend) ==
    [v EXCEPT !.backend = old_backend, !.frontend = GetPatch(old_backend)]


VAAfterApplyMutKeepsRejectedBytes(v, c, old_backend, r) ==
    IF ~r.ok
    THEN [va |-> [v EXCEPT !.backend = r.backend], err |-> "InvalidChange"]
    ELSE LET applied == [v EXCEPT !.backend = r.backend,
                                  !.frontend = GetPatch(r.backend),
                                  !.valid_history = @ \o <<c>>]
         IN IF SchemaValidate(v.schema, applied.frontend)
            THEN [va |-> applied, err |-> "none"]
            ELSE [va |-> VAReset(applied, old_backend),
                  err |-> "InvalidatesSchema"]

\* What propose_change does once apply_changes has returned `r`.
VAAfterApply(v, c, old_backend, r) ==
    IF ~r.ok
    THEN \* `?` on the apply_changes error: returns with self.backend as left
         [va |-> [v EXCEPT !.backend = r.backend], err |-> "InvalidChange"]
    ELSE LET applied == [v EXCEPT !.backend = r.backend,
                                  !.frontend = GetPatch(r.backend)]
         IN IF SchemaValidate(v.schema, applied.frontend)
            THEN [va |-> [applied EXCEPT !.valid_history = @ \o <<c>>],
                  err |-> "none"]
            ELSE [va |-> VAReset(applied, old_backend),
                  err |-> "InvalidatesSchema"]

\* ValidatedAutomerge::propose_change(change_bytes): the set of outcomes
\* [va, err], err = "none" for Ok(()).
VAProposeChange(v, c) ==
    IF ~ChangeTryFrom(c)
    THEN { [va |-> v, err |-> "InvalidChange"] }
    ELSE { VAAfterApply(v, c, v.backend, r) : r \in ApplyChanges(v.backend, c) }

\* ValidatedAutomerge::valid_history() and raw()
VAValidHistory(v) == v.valid_history

\* ValidatedAutomerge::compressed_valid_history()
VACompressedValidHistory(v) == BackendSave(v.backend)

\* ThinChangeGraph::new reads the state of the history: the JSON projection.
VAState(v) == v.frontend

NoCall == [bytes |-> [op |-> 0, kind |-> "none"], err |-> "nocall"]

\* The variables of SpecVA while another specification runs
InitVAIdle ==
    /\ va = VANew("NameString")
    /\ vaPrev = va
    /\ vaLast = NoCall

(***************************************************************************)
(* ThinChangeGraph                                                         *)
(***************************************************************************)
\* Options are sequences of length at most one.
None == << >>
Some(x) == <<x>>

\* ThinChangeGraph::new(tips, schema, schema_commit, history)
ThinNew(tips, schema, schema_commit, history) ==
    [history |-> Some(history),
     raw_history |-> VACompressedValidHistory(history),
     schema |-> schema,
     refs |-> tips,
     schema_commit |-> schema_commit,
     state |-> VAState(history)]

\* ThinChangeGraph::new_from_single_change(change, schema, schema_commit, history)
ThinNewFromSingleChange(change, schema, schema_commit, history) ==
    [history |-> Some(history),
     raw_history |-> VACompressedValidHistory(history),
     schema |-> schema,
     refs |-> {change},
     schema_commit |-> schema_commit,
     state |-> VAState(history)]

\* ThinChangeGraph::history()
ThinHistory(g) ==
    IF g.history # None THEN VAValidHistory(g.history[1]) ELSE g.raw_history

\* ThinChangeGraph::raw()
ThinRawMutRawHistory(g) == g.raw_history

ThinRaw(g) ==
    IF g.history # None THEN VAValidHistory(g.history[1]) ELSE g.raw_history

\* ThinChangeGraph::tips()
ThinTips(g) == g.refs

\* ThinChangeGraph::propose_change(change_bytes): the set of outcomes [g, err]
ThinProposeChange(g, c) ==
    IF g.history # None
    THEN { [g |-> [g EXCEPT !.history = Some(out.va)], err |-> out.err] :
             out \in VAProposeChange(g.history[1], c) }
    ELSE { [g |-> IF out.err = "none" THEN [g EXCEPT !.history = Some(out.va)] ELSE g,
            err |-> out.err] :
             out \in VAProposeChange(VANewWithHistory(g.schema, g.raw_history), c) }

\* ThinChangeGraph::update_ref(previous, new); previous is an Option
ThinUpdateRef(g, previous, new) ==
    [g EXCEPT !.refs = (@ \ Range(previous)) \cup {new}]

\* What a caller can observe of a ThinChangeGraph: the fields compared by the
\* cache test's ObjectState, with the history as history() returns it.
Snapshot(g) ==
    [history |-> ThinHistory(g), refs |-> g.refs, schema_commit |-> g.schema_commit,
     schema |-> g.schema, state |-> g.state]

(***************************************************************************)
(* The files of a cache entry                                              *)
(***************************************************************************)
RECURSIVE SetToSeq(_)
SetToSeq(S) ==
    IF S = {} THEN << >>
    ELSE LET x == CHOOSE y \in S : \A z \in S : y <= z
         IN <<x>> \o SetToSeq(S \ {x})

\* Schema::json_bytes() and Schema::try_from(bytes)
SchemaJsonBytes(schema) == [json |-> schema]
SchemaTryFrom(bytes) == bytes.json

\* serde_json::to_vec(&Metadata { refs, schema_commit }): the set of refs is
\* written as a JSON array
MetadataToVec(g) ==
    [refs |-> SetToSeq(g.refs), schema_commit |-> g.schema_commit]

\* serde_json::from_slice::<Metadata>(bytes)
MetadataFromSlice(bytes) ==
    [refs |-> Range(bytes.refs), schema_commit |-> bytes.schema_commit]

\* serde_json::to_vec(&state) and serde_json::from_slice(state_bytes)
StateToVec(state) == [json |-> state]
StateFromSlice(bytes) == bytes.json

\* The ThinChangeGraph which load builds from the four files it has read
ThinFromFiles(r) ==
    [history |-> None,
     raw_history |-> r.document[1],
     schema |-> SchemaTryFrom(r.schema[1]),
     refs |-> MetadataFromSlice(r.metadata[1]).refs,
     schema_commit |-> MetadataFromSlice(r.metadata[1]).schema_commit,
     state |-> StateFromSlice(r.state[1])]

\* load's staleness test: known_refs == &obj.borrow().refs
FreshMutAlways(known_refs, g) == TRUE

Fresh(known_refs, g) == known_refs = g.refs

\* An empty cache directory: no lock file, no object directory, no files.
\* lock = 0 means no lock file; otherwise the process which created it.
EmptyDisk ==
    [lock |-> 0, dir |-> FALSE, schema |-> None, metadata |-> None,
     state |-> None, document |-> None]

NothingRead == [schema |-> None, metadata |-> None, document |-> None, state |-> None]

(***************************************************************************)
(* Spec: processes calling load and put on one cache directory             *)
(***************************************************************************)
NumStates == 1      \* object states of the cache test which the callers put
MaxCalls == 3       \* calls of load and put started in a run
MaxAttempts == 20   \* acquire_lock gives up when attempts > 20

\* Two processes, each with its own FileSystemCache on the same directory
Procs == {1, 2}

\* The object states of the cache test: a graph without a live history.
ObjectState(k) ==
    [history |-> None,
     raw_history |-> << [op |-> k, kind |-> "str"] >>,
     refs |-> {k},
     schema_commit |-> k,
     schema |-> IF k % 2 = 1 THEN "NameString" ELSE "NameAny",
     state |-> [op |-> k, kind |-> "str"]]

\* A graph as lib.rs caches it after an evaluation: the live history holds the
\* append log of two accepted changes, raw_history their compressed form.
LiveHistory ==
    [backend |-> [applied |-> {[op |-> NumStates + 1, kind |-> "str"],
                               [op |-> NumStates + 2, kind |-> "str"]},
                  residue |-> {}],
     frontend |-> [op |-> NumStates + 2, kind |-> "str"],
     schema |-> "NameString",
     valid_history |-> << [op |-> NumStates + 2, kind |-> "str"],
                          [op |-> NumStates + 1, kind |-> "str"] >>]

LiveGraph == ThinNew({NumStates + 1, NumStates + 2}, "NameString", NumStates + 1, LiveHistory)

PutGraphs == { ObjectState(k) : k \in 1..NumStates } \cup {LiveGraph}
KnownRefs == { g.refs : g \in PutGraphs }

NoArg == [op |-> "none", refs |-> {}, graph |-> None, alone |-> FALSE, follows |-> None,
          timedout |-> FALSE]
NoRet == [op |-> "none", res |-> "none", graph |-> None, refs |-> {},
          src |-> "none", lastPut |-> None, follows |-> None, timedout |-> FALSE]

\* ret holds the value returned by the step just taken, if it returned one
NoRets == [p \in Procs |-> NoRet]

InitCache ==
    /\ disk = EmptyDisk
    /\ pc = [p \in Procs |-> "idle"]
    /\ arg = [p \in Procs |-> NoArg]
    /\ attempts = [p \in Procs |-> 0]
    /\ held = [p \in Procs |-> FALSE]
    /\ rd = [p \in Procs |-> NothingRead]
    /\ hot = [p \in Procs |-> None]
    /\ ret = NoRets
    /\ log = [lastPut |-> None, follow |-> None, putter |-> 0,
              ioFailed |-> FALSE, unlocked |-> FALSE, calls |-> 0]

OthersIdle(p) == \A q \in Procs \ {p} : pc[q] = "idle"

\* Process p starts a call: every call in progress is no longer alone.
Started(p, a) ==
    [q \in Procs |-> IF q = p THEN a ELSE [arg[q] EXCEPT !.alone = FALSE]]

\* A drop which leaves the lock file where it is
ReleasedMutLeavesLock(d, p) == d

\* The call of p returns: the LockFile, if the call holds one, is dropped.
Released(d, p) == IF held[p] THEN [d EXCEPT !.lock = 0] ELSE d

Returns(p, res, graph, src) ==
    /\ pc' = [pc EXCEPT ![p] = "idle"]
    /\ ret' = [NoRets EXCEPT ![p] =
                 [op |-> arg[p].op, res |-> res, graph |-> graph, refs |-> arg[p].refs,
                  src |-> src, lastPut |-> log.lastPut,
                  follows |-> IF arg[p].alone THEN arg[p].follows ELSE None,
                  timedout |-> arg[p].timedout \/ pc[p] = "load_lock"]]
    /\ arg' = [arg EXCEPT ![p] = NoArg]
    /\ attempts' = [attempts EXCEPT ![p] = 0]
    /\ held' = [held EXCEPT ![p] = FALSE]
    /\ rd' = [rd EXCEPT ![p] = NothingRead]

\* FileSystemCache::open: a new cache value, its hot_cache empty
Open(p) ==
    /\ UNCHANGED otherThanCache
    /\ pc[p] = "idle"
    /\ hot[p] # None
    /\ hot' = [hot EXCEPT ![p] = None]
    /\ ret' = NoRets
    /\ UNCHANGED <<disk, pc, arg, attempts, held, rd, log>>

\* load(oid, known_refs) is called.  (The processes are interchangeable: the
\* first call of a run is made by process 1.)  `follows` remembers the put this load
\* directly follows, when the caller is the process that put or has an empty
\* hot_cache.
StartLoad(p, known_refs) ==
    /\ UNCHANGED otherThanCache
    /\ pc[p] = "idle"
    /\ log.calls < MaxCalls
    /\ log.calls = 0 => p = 1
    /\ pc' = [pc EXCEPT ![p] = "load_lock"]
    /\ arg' = Started(p, [op |-> "load", refs |-> known_refs, graph |-> None,
                          alone |-> OthersIdle(p),
                          follows |-> IF /\ log.follow # None
                                         /\ log.putter = p \/ hot[p] = None
                                      THEN log.follow ELSE None,
                          timedout |-> FALSE])
    /\ log' = [log EXCEPT !.calls = @ + 1, !.follow = None]
    /\ ret' = NoRets
    /\ UNCHANGED <<disk, attempts, held, rd, hot>>

\* put(oid, graph) is called
StartPut(p, g) ==
    /\ UNCHANGED otherThanCache
    /\ pc[p] = "idle"
    /\ log.calls < MaxCalls
    /\ log.calls = 0 => p = 1
    /\ pc' = [pc EXCEPT ![p] = "put_lock"]
    /\ arg' = Started(p, [op |-> "put", refs |-> {}, graph |-> Some(g),
                          alone |-> OthersIdle(p), follows |-> None,
                          timedout |-> FALSE])
    /\ log' = [log EXCEPT !.calls = @ + 1, !.follow = None]
    /\ ret' = NoRets
    /\ UNCHANGED <<disk, attempts, held, rd, hot>>

\* acquire_lock: LockFile::create succeeds
AcquireLock(p) ==
    /\ UNCHANGED otherThanCache
    /\ pc[p] \in {"load_lock", "put_lock"}
    /\ disk.lock = 0
    /\ disk' = [disk EXCEPT !.lock = p]
    /\ held' = [held EXCEPT ![p] = TRUE]
    /\ attempts' = [attempts EXCEPT ![p] = 0]
    /\ pc' = [pc EXCEPT ![p] = IF pc[p] = "load_lock" THEN "load_check" ELSE "put_mkdir"]
    /\ ret' = NoRets
    /\ UNCHANGED <<arg, rd, hot, log>>


\* An acquire_lock which does not count its failed attempts
WaitLockMutNoCount(p) ==
    /\ UNCHANGED otherThanCache
    /\ pc[p] \in {"load_lock", "put_lock"}
    /\ disk.lock # 0
    /\ attempts[p] + 1 <= MaxAttempts
    /\ ret' = NoRets
    /\ UNCHANGED <<disk, pc, arg, attempts, held, rd, hot, log>>

\* acquire_lock: the lock file exists; sleep and try again
WaitLock(p) ==
    /\ UNCHANGED otherThanCache
    /\ pc[p] \in {"load_lock", "put_lock"}
    /\ disk.lock # 0
    /\ attempts[p] + 1 <= MaxAttempts
    /\ attempts' = [attempts EXCEPT ![p] = @ + 1]
    /\ ret' = NoRets
    /\ UNCHANGED <<disk, pc, arg, held, rd, hot, log>>

\* load: acquire_lock gave up and `?` returns its error
LoadLockFail(p) ==
    /\ UNCHANGED otherThanCache
    /\ pc[p] = "load_lock"
    /\ disk.lock # 0
    /\ attempts[p] + 1 > MaxAttempts
    /\ Returns(p, "Err", None, "none")
    /\ UNCHANGED <<disk, hot, log>>

\* put: acquire_lock gave up; its Result is bound to _lockfile and put goes on
PutLockFail(p) ==
    /\ UNCHANGED otherThanCache
    /\ pc[p] = "put_lock"
    /\ disk.lock # 0
    /\ attempts[p] + 1 > MaxAttempts
    /\ pc' = [pc EXCEPT ![p] = "put_mkdir"]
    /\ attempts' = [attempts EXCEPT ![p] = 0]
    /\ arg' = [arg EXCEPT ![p].timedout = TRUE]
    /\ log' = [log EXCEPT !.unlocked = TRUE]
    /\ ret' = NoRets
    /\ UNCHANGED <<disk, held, rd, hot>>


LoadCheckMutKeepsStale(p) ==
    /\ UNCHANGED otherThanCache
    /\ pc[p] = "load_check"
    /\ IF ~disk.dir
       THEN /\ Returns(p, "None", None, "none")
            /\ disk' = Released(disk, p)
            /\ UNCHANGED hot
       ELSE IF hot[p] # None
       THEN IF Fresh(arg[p].refs, hot[p][1])
            THEN /\ Returns(p, "Some", hot[p], "hot")
                 /\ disk' = Released(disk, p)
                 /\ UNCHANGED hot
            ELSE /\ Returns(p, "None", None, "hot")
                 /\ disk' = Released(disk, p)
                 /\ UNCHANGED hot
       ELSE /\ pc' = [pc EXCEPT ![p] = "load_schema"]
            /\ ret' = NoRets
            /\ UNCHANGED <<disk, arg, attempts, held, rd, hot>>
    /\ UNCHANGED log

\* load: the object directory and the hot_cache are looked at
LoadCheck(p) ==
    /\ UNCHANGED otherThanCache
    /\ pc[p] = "load_check"
    /\ IF ~disk.dir
       THEN /\ Returns(p, "None", None, "none")
            /\ disk' = Released(disk, p)
            /\ UNCHANGED hot
       ELSE IF hot[p] # None
       THEN IF Fresh(arg[p].refs, hot[p][1])
            THEN /\ Returns(p, "Some", hot[p], "hot")
                 /\ disk' = Released(disk, p)
                 /\ UNCHANGED hot
            ELSE /\ Returns(p, "None", None, "hot")
                 /\ disk' = Released(disk, p)
                 /\ hot' = [hot EXCEPT ![p] = None]
       ELSE /\ pc' = [pc EXCEPT ![p] = "load_schema"]
            /\ ret' = NoRets
            /\ UNCHANGED <<disk, arg, attempts, held, rd, hot>>
    /\ UNCHANGED log

\* load: std::fs::read of one file; a missing file is an error that `?` returns
LoadRead(p, here, file, next) ==
    /\ UNCHANGED otherThanCache
    /\ pc[p] = here
    /\ IF file = None
       THEN /\ Returns(p, "Err", None, "disk")
            /\ disk' = Released(disk, p)
       ELSE /\ pc' = [pc EXCEPT ![p] = next]
            /\ rd' = [rd EXCEPT ![p] = [@ EXCEPT ![SubSeq(here, 6, Len(here))] = file]]
            /\ ret' = NoRets
            /\ UNCHANGED <<disk, arg, attempts, held>>
    /\ UNCHANGED <<hot, log>>

LoadReadSchema(p) == LoadRead(p, "load_schema", disk.schema, "load_metadata")
LoadReadMetadata(p) == LoadRead(p, "load_metadata", disk.metadata, "load_document")
LoadReadDocument(p) == LoadRead(p, "load_document", disk.document, "load_state")

\* load: state.json is read, the graph is built and compared with known_refs
LoadReadState(p) ==
    /\ UNCHANGED otherThanCache
    /\ pc[p] = "load_state"
    /\ IF disk.state = None
       THEN /\ Returns(p, "Err", None, "disk")
            /\ UNCHANGED hot
       ELSE LET g == ThinFromFiles([rd[p] EXCEPT !.state = disk.state])
            IN IF Fresh(arg[p].refs, g)
               THEN /\ Returns(p, "Some", Some(g), "disk")
                    /\ hot' = [hot EXCEPT ![p] = Some(g)]
               ELSE /\ Returns(p, "None", None, "disk")
                    /\ UNCHANGED hot
    /\ disk' = Released(disk, p)
    /\ UNCHANGED log

\* put: create_dir_all unless the object directory exists
PutMkdir(p) ==
    /\ UNCHANGED otherThanCache
    /\ pc[p] = "put_mkdir"
    /\ disk' = [disk EXCEPT !.dir = TRUE]
    /\ pc' = [pc EXCEPT ![p] = "put_schema"]
    /\ ret' = NoRets
    /\ UNCHANGED <<arg, attempts, held, rd, hot, log>>

PutWriteSchemaMutHotFirst(p) ==
    /\ UNCHANGED otherThanCache
    /\ pc[p] = "put_schema"
    /\ disk' = [disk EXCEPT !.schema = Some(SchemaJsonBytes(arg[p].graph[1].schema))]
    /\ pc' = [pc EXCEPT ![p] = "put_metadata"]
    /\ ret' = NoRets
    /\ hot' = [hot EXCEPT ![p] = arg[p].graph]
    /\ UNCHANGED <<arg, attempts, held, rd, log>>

\* put: schema.json is written
PutWriteSchema(p) ==
    /\ UNCHANGED otherThanCache
    /\ pc[p] = "put_schema"
    /\ disk' = [disk EXCEPT !.schema = Some(SchemaJsonBytes(arg[p].graph[1].schema))]
    /\ pc' = [pc EXCEPT ![p] = "put_metadata"]
    /\ ret' = NoRets
    /\ UNCHANGED <<arg, attempts, held, rd, hot, log>>

PutWriteMetadata(p) ==
    /\ UNCHANGED otherThanCache
    /\ pc[p] = "put_metadata"
    /\ disk' = [disk EXCEPT !.metadata = Some(MetadataToVec(arg[p].graph[1]))]
    /\ pc' = [pc EXCEPT ![p] = "put_state"]
    /\ ret' = NoRets
    /\ UNCHANGED <<arg, attempts, held, rd, hot, log>>

PutWriteState(p) ==
    /\ UNCHANGED otherThanCache
    /\ pc[p] = "put_state"
    /\ disk' = [disk EXCEPT !.state = Some(StateToVec(arg[p].graph[1].state))]
    /\ pc' = [pc EXCEPT ![p] = "put_document"]
    /\ ret' = NoRets
    /\ UNCHANGED <<arg, attempts, held, rd, hot, log>>

\* put: the document is written, the graph goes to the hot_cache, Ok(())
PutWriteDocument(p) ==
    /\ UNCHANGED otherThanCache
    /\ pc[p] = "put_document"
    /\ disk' = Released([disk EXCEPT !.document = Some(ThinRaw(arg[p].graph[1]))], p)
    /\ hot' = [hot EXCEPT ![p] = arg[p].graph]
    /\ Returns(p, "Ok", None, "none")
    /\ log' = [log EXCEPT !.lastPut = Some(Snapshot(arg[p].graph[1])),
                          !.follow = IF arg[p].alone
                                     THEN Some(Snapshot(arg[p].graph[1])) ELSE None,
                          !.putter = p]

\* put: create_dir_all or one of the four writes fails and `?` returns the
\* error; the failed operation leaves the directory as it was
PutIoError(p) ==
    /\ UNCHANGED otherThanCache
    /\ pc[p] \in {"put_mkdir", "put_schema", "put_metadata", "put_state", "put_document"}
    /\ Returns(p, "Err", None, "none")
    /\ disk' = Released(disk, p)
    /\ log' = [log EXCEPT !.ioFailed = TRUE]
    /\ UNCHANGED hot

NextCache ==
    \E p \in Procs :
        \/ Open(p)
        \/ \E r \in KnownRefs : StartLoad(p, r)
        \/ \E g \in PutGraphs : StartPut(p, g)
        \/ AcquireLock(p)
        \/ WaitLock(p)
        \/ LoadLockFail(p)
        \/ PutLockFail(p)
        \/ LoadCheck(p)
        \/ LoadReadSchema(p)
        \/ LoadReadMetadata(p)
        \/ LoadReadDocument(p)
        \/ LoadReadState(p)
        \/ PutMkdir(p)
        \/ PutWriteSchema(p)
        \/ PutWriteMetadata(p)
        \/ PutWriteState(p)
        \/ PutWriteDocument(p)
        \/ PutIoError(p)


\* The next round of the loop of acquire_lock in process p
AcquireStep(p) ==
    \/ AcquireLock(p)
    \/ WaitLock(p)
    \/ LoadLockFail(p)
    \/ PutLockFail(p)

\* The next step of the call process p is in.  Absent a crash the process
\* keeps running: it takes the step sooner or later.
CallStep(p) ==
    \/ AcquireLock(p)
    \/ WaitLock(p)
    \/ LoadLockFail(p)
    \/ PutLockFail(p)
    \/ LoadCheck(p)
    \/ LoadReadSchema(p)
    \/ LoadReadMetadata(p)
    \/ LoadReadDocument(p)
    \/ LoadReadState(p)
    \/ PutMkdir(p)
    \/ PutWriteSchema(p)
    \/ PutWriteMetadata(p)
    \/ PutWriteState(p)
    \/ PutWriteDocument(p)
    \/ PutIoError(p)

(***************************************************************************)
(* SpecVA: propose_change called repeatedly on one ValidatedAutomerge      *)
(***************************************************************************)
InitVA ==
    /\ va \in { VANew(s) : s \in Schemas }
    /\ vaPrev = va
    /\ vaLast = NoCall

\* A caller proposes the bytes of one change.  automerge identifies a change by
\* its hash, so no two different changes carry the same op.
Propose(c) ==
    /\ Len(va.valid_history) < MaxHistory
    /\ \A d \in va.backend.applied \cup va.backend.residue : d.op = c.op => d = c
    /\ \E out \in VAProposeChange(va, c) :
          /\ va' = out.va
          /\ vaLast' = [bytes |-> c, err |-> out.err]
    /\ vaPrev' = va
    /\ UNCHANGED otherThanVA

NextVA == \E c \in Changes : Propose(c)


(***************************************************************************)
(* The git repository and the identities, as the change graph reads them   *)
(***************************************************************************)
NumCommits == 4     \* change commits in the repository
MaxTips == 2        \* tip references handed to ChangeGraph::load
MaxFaulty == 1      \* changes (or schema change) which are not in order

\* Commit ids which are not change commits.  Change commits are 1, 2, ...
ProjectCommit == 10         \* the project the object lives in
OtherProjectCommit == 11    \* some other project
MaintainerCommit == 12      \* a person who is a delegate of the project
StrangerCommit == 13        \* a person who is not
UnknownCommit == 14         \* a commit which is no identity at all
SchemaCommit == 20          \* the schema change of the object

\* IdentityCache::lookup_identity(commit): Ok(Some(identity)) or Ok(None)
LookupIdentity(commit) ==
    IF commit = ProjectCommit THEN Some([type |-> "project", urn |-> ProjectCommit])
    ELSE IF commit = OtherProjectCommit
    THEN Some([type |-> "project", urn |-> OtherProjectCommit])
    ELSE IF commit = MaintainerCommit
    THEN Some([type |-> "person", urn |-> MaintainerCommit])
    ELSE IF commit = StrangerCommit
    THEN Some([type |-> "person", urn |-> StrangerCommit])
    ELSE None

\* The identity the caller passes as the containing identity of the object
ContainingIdentity == [type |-> "project", urn |-> ProjectCommit]

\* are_same_identity(left, right)
AreSameIdentity(left, right) == left.urn = right.urn

\* is_maintainer(project, person): the person's keys are eligible under the
\* project's delegations
IsMaintainer(project, person) ==
    project.urn = ProjectCommit /\ person.urn = MaintainerCommit

\* What a change commit carries: whether Change::load succeeds on it, its
\* trailers, whether its signatures verify, and the kind of its delta.
OkAttrs ==
    [loads |-> TRUE, identity |-> ProjectCommit, sig |-> TRUE,
     author |-> MaintainerCommit, kind |-> "str"]

ChangeAttrs ==
    {OkAttrs, [OkAttrs EXCEPT !.loads = FALSE], [OkAttrs EXCEPT !.sig = FALSE]}
    \cup { [OkAttrs EXCEPT !.identity = i] : i \in {OtherProjectCommit, UnknownCommit} }
    \cup { [OkAttrs EXCEPT !.author = a] :
             a \in {StrangerCommit, ProjectCommit, UnknownCommit} }
    \cup { [OkAttrs EXCEPT !.kind = k] : k \in Kinds }

\* What the schema commit carries
SchemaStatuses == {"ok", "unloadable", "badsig", "noidentity", "otheridentity"}

\* The tips a new change commit number c can name as its parents: distinct
\* earlier change commits, in any order; the first change has none.
ParentSeqs(c) ==
    IF c = 1 THEN { << >> }
    ELSE { s \in UNION { [1..n -> 1..(c - 1)] : n \in 1..(c - 1) } :
             \A i, j \in 1..Len(s) : i # j => s[i] # s[j] }

\* The tip references of an object: each points at a change commit, two
\* references may point at the same commit
TipSeqs(n) == UNION { [1..k -> 1..n] : k \in 1..MaxTips }

\* Change::create / ChangeMetadata::create: the git parents of a change commit
\* are its tips, the schema commit, the containing identity commit and last
\* the author's identity commit.
GitParents(repo, c) ==
    IF c \in DOMAIN repo
    THEN repo[c].tips \o <<SchemaCommit, repo[c].attrs.identity, repo[c].attrs.author>>
    ELSE << >>

\* Change::load(repo, commit): None for Err
ChangeLoad(repo, c) ==
    IF c \in DOMAIN repo /\ repo[c].attrs.loads
    THEN Some([commit |-> c,
               schema_commit |-> SchemaCommit,
               containing_identity_commit |-> repo[c].attrs.identity,
               author_commit |-> repo[c].attrs.author,
               valid_signatures |-> repo[c].attrs.sig,
               history |-> [op |-> c, kind |-> repo[c].attrs.kind]])
    ELSE None

NumFaulty(repo, schema) ==
    Cardinality({ c \in DOMAIN repo : repo[c].attrs # OkAttrs })
        + (IF schema = "ok" THEN 0 ELSE 1)

(***************************************************************************)
(* petgraph::Graph<Change, ()>: nodes in index order, edges in the order   *)
(* they were added                                                         *)
(***************************************************************************)
EmptyGraph == [nodes |-> << >>, edges |-> << >>]

Reverse(s) == [i \in 1..Len(s) |-> s[Len(s) + 1 - i]]

\* graph.externals(Incoming), in node index order
ExternalsIncoming(g) ==
    SelectSeq(g.nodes, LAMBDA n : \A i \in 1..Len(g.edges) : g.edges[i][2] # n)

\* graph.externals(Outgoing), in node index order
ExternalsOutgoing(g) ==
    SelectSeq(g.nodes, LAMBDA n : \A i \in 1..Len(g.edges) : g.edges[i][1] # n)

\* graph.neighbors(n): the targets of n's outgoing edges, the edge added last
\* first
Neighbors(g, n) ==
    LET out == Reverse(SelectSeq(g.edges, LAMBDA ed : ed[1] = n))
    IN [i \in 1..Len(out) |-> out[i][2]]

(***************************************************************************)
(* GraphBuilder                                                            *)
(***************************************************************************)
\* GraphBuilder::has_edge(parent_id, child_id)
HasEdge(g, parent_id, child_id) ==
    /\ parent_id \in Range(g.nodes)
    /\ child_id \in Range(g.nodes)
    /\ <<parent_id, child_id>> \in Range(g.edges)

\* add_change, first half: the node is added unless the commit has one
AddNode(g, commit) ==
    IF commit \in Range(g.nodes) THEN g ELSE [g EXCEPT !.nodes = Append(@, commit)]


\* An add_change which queues every git parent
NewEdgesMutNoSideLinkFilter(g, repo, change) ==
    LET parents == GitParents(repo, change.commit)
        keep == SelectSeq(parents, LAMBDA parent : ~HasEdge(g, parent, change.commit))
    IN [i \in 1..Len(keep) |-> <<keep[i], change.commit>>]

\* add_change, second half: the (parent, child) pairs returned
NewEdges(g, repo, change) ==
    LET parents == GitParents(repo, change.commit)
        keep == SelectSeq(parents, LAMBDA parent :
                    /\ parent # change.author_commit
                    /\ parent # change.schema_commit
                    /\ parent # change.containing_identity_commit
                    /\ ~HasEdge(g, parent, change.commit))
    IN [i \in 1..Len(keep) |-> <<keep[i], change.commit>>]


\* An add_edge which calls Graph::add_edge
AddEdgeMutAlwaysAdds(g, child, parent) ==
    [g EXCEPT !.edges = Append(@, <<parent, child>>)]

\* GraphBuilder::add_edge(child, parent): Graph::update_edge(parent, child)
AddEdge(g, child, parent) ==
    IF <<parent, child>> \in Range(g.edges) THEN g
    ELSE [g EXCEPT !.edges = Append(@, <<parent, child>>)]

\* ChangeGraph::tips()
GraphTips(g) == Range(ExternalsOutgoing(g))

(***************************************************************************)
(* ChangeGraph::load and ChangeGraph::evaluate, step by step               *)
(***************************************************************************)
\* A walk which has not started: `repo` is the sequence of change commits,
\* `schema` what the schema commit carries.
NewWalk(repo, schema) ==
    [phase |-> "repo", repo |-> repo, schema |-> schema,
     tips |-> << >>, i |-> 1, g |-> EmptyGraph, todo |-> << >>,
     built |-> "none", root |-> 0, stack |-> << >>, discovered |-> {},
     failed |-> {}, va |-> VANew("NameString"), history |-> << >>,
     run |-> 0, first |-> None]

\* load is called with the references in the order tip_refs
BeginLoad(e, tip_refs) ==
    [NewWalk(e.repo, e.schema) EXCEPT !.phase = IF tip_refs = << >> THEN "walk" ELSE "tips",
                                      !.tips = tip_refs,
                                      !.run = e.run + 1, !.first = e.first]

\* One round of the loop over tip_refs
LoadTipStep(e) ==
    LET commit == e.tips[e.i]
        loaded == ChangeLoad(e.repo, commit)
        g1 == AddNode(e.g, commit)
        next == IF e.i = Len(e.tips) THEN "walk" ELSE "tips"
    IN IF loaded # None
       THEN [e EXCEPT !.g = g1,
                      !.todo = @ \o NewEdges(g1, e.repo, loaded[1]),
                      !.i = @ + 1, !.phase = next]
       ELSE [e EXCEPT !.i = @ + 1, !.phase = next]

\* A walk which leaves the pair of a commit that does not load in the queue
WalkStepMutKeepsPair(e) ==
    LET parent_commit == e.todo[Len(e.todo)][1]
        child_commit_id == e.todo[Len(e.todo)][2]
        rest == SubSeq(e.todo, 1, Len(e.todo) - 1)
        loaded == ChangeLoad(e.repo, parent_commit)
        g1 == AddNode(e.g, parent_commit)
    IN IF loaded # None
       THEN [e EXCEPT !.g = AddEdge(g1, child_commit_id, parent_commit),
                      !.todo = rest \o NewEdges(g1, e.repo, loaded[1])]
       ELSE e

\* A walk which goes on to the parents of a commit that does not load
WalkStepMutWalksThrough(e) ==
    LET parent_commit == e.todo[Len(e.todo)][1]
        child_commit_id == e.todo[Len(e.todo)][2]
        rest == SubSeq(e.todo, 1, Len(e.todo) - 1)
        loaded == ChangeLoad(e.repo, parent_commit)
        g1 == AddNode(e.g, parent_commit)
        beyond == IF parent_commit \in DOMAIN e.repo THEN e.repo[parent_commit].tips ELSE << >>
    IN IF loaded # None
       THEN [e EXCEPT !.g = AddEdge(g1, child_commit_id, parent_commit),
                      !.todo = rest \o NewEdges(g1, e.repo, loaded[1])]
       ELSE [e EXCEPT !.todo = rest \o [i \in 1..Len(beyond) |-> <<beyond[i], child_commit_id>>]]

\* One round of `while let Some(..) = edges_to_process.pop()`
WalkStep(e) ==
    LET parent_commit == e.todo[Len(e.todo)][1]
        child_commit_id == e.todo[Len(e.todo)][2]
        rest == SubSeq(e.todo, 1, Len(e.todo) - 1)
        loaded == ChangeLoad(e.repo, parent_commit)
        g1 == AddNode(e.g, parent_commit)
    IN IF loaded # None
       THEN [e EXCEPT !.g = AddEdge(g1, child_commit_id, parent_commit),
                      !.todo = rest \o NewEdges(g1, e.repo, loaded[1])]
       ELSE [e EXCEPT !.todo = rest]

\* A build which does not look at the containing identity of the schema change
BuildStepMutNoIdentityCheck(e) ==
    IF ExternalsIncoming(e.g) = << >>
    THEN [e EXCEPT !.phase = "done", !.built = "nograph"]
    ELSE IF e.schema = "unloadable"
    THEN [e EXCEPT !.phase = "done", !.built = "LoadSchema"]
    ELSE IF e.schema = "badsig"
    THEN [e EXCEPT !.phase = "done", !.built = "InvalidSchemaSignatures"]
    ELSE [e EXCEPT !.phase = "eval", !.built = "graph"]

\* GraphBuilder::build
BuildStep(e) ==
    LET roots == ExternalsIncoming(e.g)
    IN IF roots = << >>
       THEN [e EXCEPT !.phase = "done", !.built = "nograph"]
       ELSE IF e.schema = "unloadable"
       THEN [e EXCEPT !.phase = "done", !.built = "LoadSchema"]
       ELSE IF e.schema = "badsig"
       THEN [e EXCEPT !.phase = "done", !.built = "InvalidSchemaSignatures"]
       ELSE IF e.schema = "noidentity"
       THEN [e EXCEPT !.phase = "done", !.built = "NoSchemaContainingIdentityFound"]
       ELSE IF e.schema = "otheridentity"
       THEN [e EXCEPT !.phase = "done", !.built = "SchemaContainingUrnIncorrect"]
       ELSE [e EXCEPT !.phase = "eval", !.built = "graph"]

AuthorCheckMutAnyPerson(containing_identity, author_commit) ==
    LET author == LookupIdentity(author_commit)
    IN /\ author # None
       /\ author[1].type = "person"
       /\ containing_identity.type = "project" => IsMaintainer(containing_identity, author[1])

\* The author rule of evaluate
AuthorCheck(containing_identity, author_commit) ==
    LET author == LookupIdentity(author_commit)
    IN /\ author # None
       /\ author[1].type = "person"
       /\ IF containing_identity.type = "person"
          THEN containing_identity.urn = author[1].urn
          ELSE IsMaintainer(containing_identity, author[1])

VisitMutNoSignatureCheck(v, change) ==
    LET containing_identity == LookupIdentity(change.containing_identity_commit)
    IN IF containing_identity = None
       THEN { [ctl |-> "Prune", va |-> v] }
       ELSE IF ~AreSameIdentity(containing_identity[1], ContainingIdentity)
       THEN { [ctl |-> "Prune", va |-> v] }
       ELSE IF ~AuthorCheck(containing_identity[1], change.author_commit)
       THEN { [ctl |-> "Prune", va |-> v] }
       ELSE { [ctl |-> IF out.err = "none" THEN "Continue" ELSE "Prune",
               va |-> out.va] : out \in VAProposeChange(v, change.history) }

\* The closure evaluate passes to depth_first_search, on Discover(n): the set
\* of outcomes [ctl, va]
Visit(v, change) ==
    LET containing_identity == LookupIdentity(change.containing_identity_commit)
    IN IF containing_identity = None
       THEN { [ctl |-> "Prune", va |-> v] }
       ELSE IF ~AreSameIdentity(containing_identity[1], ContainingIdentity)
       THEN { [ctl |-> "Prune", va |-> v] }
       ELSE IF ~change.valid_signatures
       THEN { [ctl |-> "Prune", va |-> v] }
       ELSE IF ~AuthorCheck(containing_identity[1], change.author_commit)
       THEN { [ctl |-> "Prune", va |-> v] }
       ELSE { [ctl |-> IF out.err = "none" THEN "Continue" ELSE "Prune",
               va |-> out.va] : out \in VAProposeChange(v, change.history) }

\* What follows Control::Prune in petgraph's dfs_visitor: the node's
\* neighbours are not walked
AfterPruneMutContinue(g, n) == Neighbors(g, n)

AfterPrune(g, n) == << >>

\* petgraph's dfs_visitor on entering node n: n is marked discovered, the
\* visitor runs, and unless it prunes the neighbours of n are up next
Discover(e, n) ==
    { LET pruned == o.ctl = "Prune"
          frame == [node |-> n,
                    nbrs |-> IF pruned THEN AfterPrune(e.g, n) ELSE Neighbors(e.g, n)]
      IN [e EXCEPT !.discovered = @ \cup {n},
                   !.va = o.va,
                   !.failed = IF pruned THEN @ \cup {n} ELSE @,
                   !.stack = Append(@, frame)] :
        o \in Visit(e.va, ChangeLoad(e.repo, n)[1]) }

\* evaluate up to the first Discover: the roots sorted by node index, the
\* first of them is where the traversal starts
EvalBegin(e) ==
    LET roots == ExternalsIncoming(e.g)
        root == roots[1]
    IN Discover([e EXCEPT !.root = root, !.va = VANew("NameString")], root)

\* One round of dfs_visitor's loop over the neighbours of the node on top of
\* the recursion, or its return when there is none left
EvalStep(e) ==
    LET top == e.stack[Len(e.stack)]
        below == SubSeq(e.stack, 1, Len(e.stack) - 1)
    IN IF top.nbrs = << >>
       THEN IF below = << >>
            THEN { [e EXCEPT !.stack = below, !.phase = "done",
                             !.history = VAValidHistory(e.va)] }
            ELSE { [e EXCEPT !.stack = below] }
       ELSE LET v == Head(top.nbrs)
                e1 == [e EXCEPT !.stack[Len(e.stack)].nbrs = Tail(@)]
            IN IF v \in e.discovered THEN {e1} ELSE Discover(e1, v)

\* The nodes evaluate can reach from `from` without passing through a node
\* of `failed`
RECURSIVE ReachableThrough(_, _, _)
ReachableThrough(g, failed, seen) ==
    LET more == { ed[2] : ed \in { x \in Range(g.edges) :
                                     x[1] \in seen \ failed /\ x[2] \notin seen } }
    IN IF more = {} THEN seen ELSE ReachableThrough(g, failed, seen \cup more)

(***************************************************************************)
(* SpecEval: a repository of changes grows, then the object is loaded and  *)
(* evaluated, and loaded and evaluated once more with the references in    *)
(* another order                                                           *)
(***************************************************************************)
EvIdle == NewWalk(<< >>, "ok")

InitEvalIdle == ev = EvIdle

\* Some peer creates a change commit on top of earlier ones
Commit(tips, attrs) ==
    /\ ev.phase = "repo"
    /\ Len(ev.repo) < NumCommits
    /\ tips \in ParentSeqs(Len(ev.repo) + 1)
    /\ LET repo == Append(ev.repo, [tips |-> tips, attrs |-> attrs])
       IN /\ NumFaulty(repo, ev.schema) <= MaxFaulty
          /\ ev' = [ev EXCEPT !.repo = repo]
    /\ UNCHANGED otherThanEval

\* ChangeGraph::load is called
StartWalk(tip_refs) ==
    /\ ev.phase = "repo"
    /\ Len(ev.repo) >= 1
    /\ tip_refs \in TipSeqs(Len(ev.repo))
    /\ ev' = BeginLoad(ev, tip_refs)
    /\ UNCHANGED otherThanEval

LoadTip ==
    /\ ev.phase = "tips"
    /\ ev' = LoadTipStep(ev)
    /\ UNCHANGED otherThanEval

Walk ==
    /\ ev.phase = "walk"
    /\ ev.todo # << >>
    /\ ev' = WalkStep(ev)
    /\ UNCHANGED otherThanEval

Build ==
    /\ ev.phase = "walk"
    /\ ev.todo = << >>
    /\ ev' = BuildStep(ev)
    /\ UNCHANGED otherThanEval

EvaluateBegin ==
    /\ ev.phase = "eval"
    /\ ev.root = 0
    /\ ev' \in EvalBegin(ev)
    /\ UNCHANGED otherThanEval

EvaluateStep ==
    /\ ev.phase = "eval"
    /\ ev.root # 0
    /\ ev' \in EvalStep(ev)
    /\ UNCHANGED otherThanEval

\* The same object is loaded again, the reference store handing out the same
\* references in another order
WalkAgain(tip_refs) ==
    /\ ev.phase = "done"
    /\ ev.built = "graph"
    /\ ev.run = 1
    /\ tip_refs \in TipSeqs(Len(ev.repo))
    /\ Len(tip_refs) = Len(ev.tips)
    /\ tip_refs # ev.tips
    /\ \E perm \in [1..Len(tip_refs) -> 1..Len(tip_refs)] :
          /\ \A i, j \in 1..Len(tip_refs) : i # j => perm[i] # perm[j]
          /\ tip_refs = [i \in 1..Len(tip_refs) |-> ev.tips[perm[i]]]
    /\ ev' = BeginLoad([ev EXCEPT !.first = Some([history |-> ev.history,
                                                  nodes |-> Range(ev.g.nodes),
                                                  edges |-> Range(ev.g.edges)])],
                       tip_refs)
    /\ UNCHANGED otherThanEval

NextEval ==
    \/ \E c \in 1..NumCommits : \E tips \in ParentSeqs(c) : \E attrs \in ChangeAttrs :
          Commit(tips, attrs)
    \/ \E tip_refs \in TipSeqs(NumCommits) : StartWalk(tip_refs)
    \/ LoadTip
    \/ Walk
    \/ Build
    \/ EvaluateBegin
    \/ EvaluateStep
    \/ \E tip_refs \in TipSeqs(NumCommits) : WalkAgain(tip_refs)

InitEval ==
    /\ ev \in { NewWalk(<< >>, s) : s \in SchemaStatuses }
    /\ InitCache
    /\ InitVAIdle

\* ChangeGraph::load alone: the repository grows, then the graph is walked
\* and built
NextLoad ==
    \/ \E c \in 1..NumCommits : \E tips \in ParentSeqs(c) : \E attrs \in ChangeAttrs :
          Commit(tips, attrs)
    \/ \E tip_refs \in TipSeqs(NumCommits) : StartWalk(tip_refs)
    \/ LoadTip
    \/ Walk
    \/ Build

(***************************************************************************)
(* load and put of a FileSystemCache opened for one call, with no other    *)
(* process on the directory                                                *)
(***************************************************************************)
\* The writes of put in program order; "none" stands for no I/O error
PutOrder == <<"mkdir", "schema", "metadata", "state", "document">>
PutFailures == Range(PutOrder) \cup {"none"}

\* Whether put gets past `step` when the I/O error strikes at `failAt`
PutDoes(step, failAt) ==
    \/ failAt = "none"
    \/ \E i, j \in 1..Len(PutOrder) : PutOrder[i] = step /\ PutOrder[j] = failAt /\ i < j

\* FileSystemCache::put(oid, graph): [disk, ok]
CachePut(d, g, failAt) ==
    [disk |-> [d EXCEPT
        !.dir = IF PutDoes("mkdir", failAt) THEN TRUE ELSE @,
        !.schema = IF PutDoes("schema", failAt) THEN Some(SchemaJsonBytes(g.schema)) ELSE @,
        !.metadata = IF PutDoes("metadata", failAt) THEN Some(MetadataToVec(g)) ELSE @,
        !.state = IF PutDoes("state", failAt) THEN Some(StateToVec(g.state)) ELSE @,
        !.document = IF PutDoes("document", failAt) THEN Some(ThinRaw(g)) ELSE @],
     ok |-> failAt = "none"]

\* FileSystemCache::load(oid, known_refs) on a cache just opened: [res, graph]
CacheLoad(d, known_refs) ==
    IF ~d.dir THEN [res |-> "None", graph |-> None]
    ELSE IF d.schema = None \/ d.metadata = None \/ d.document = None \/ d.state = None
    THEN [res |-> "Err", graph |-> None]
    ELSE LET g == ThinFromFiles([schema |-> d.schema, metadata |-> d.metadata,
                                 document |-> d.document, state |-> d.state])
         IN IF Fresh(known_refs, g)
            THEN [res |-> "Some", graph |-> Some(g)]
            ELSE [res |-> "None", graph |-> None]

\* How the entry of the object stands on disk
EntryStatus(d) ==
    IF ~d.dir THEN "absent"
    ELSE IF d.schema = None \/ d.metadata = None \/ d.document = None \/ d.state = None
    THEN "unreadable"
    ELSE "readable"

(***************************************************************************)
(* ChangeGraph::load followed by evaluate, run to the end                  *)
(***************************************************************************)
WalkNext(e) ==
    IF e.phase = "tips" THEN {LoadTipStep(e)}
    ELSE IF e.phase = "walk"
    THEN IF e.todo # << >> THEN {WalkStep(e)} ELSE {BuildStep(e)}
    ELSE IF e.root = 0 THEN EvalBegin(e) ELSE EvalStep(e)

RECURSIVE RunWalk(_)
RunWalk(e) ==
    IF e.phase = "done" THEN {e} ELSE UNION { RunWalk(n) : n \in WalkNext(e) }

\* ChangeGraph::load(.., tip_refs, ..) and, for a graph, graph.evaluate(..)
LoadAndEvaluate(repo, schema, tip_refs) == RunWalk(BeginLoad(NewWalk(repo, schema), tip_refs))

(***************************************************************************)
(* SpecObj: create_object, retrieve_object and update_object on one object *)
(* with a cache directory, while a peer's reference to the object moves    *)
(***************************************************************************)
MaxObjectCalls == 4     \* calls of create/retrieve/update and arrivals from the peer in a run

\* RefsStorage::object_references: the local reference and the remote one
ObjectReferences(o) == [local |-> o.local, remote |-> o.remote]

\* ObjectRefs::iter(): the references in the order the store hands them out
RefOrders(refs) ==
    IF refs.local # None /\ refs.remote # None
    THEN {refs.local \o refs.remote, refs.remote \o refs.local}
    ELSE {refs.local \o refs.remote}

\* RefsStorage::update_ref: the local reference is moved to the new commit
RefsUpdateRef(o, commit) == [o EXCEPT !.local = Some(commit)]

NoLast ==
    [op |-> "none", res |-> "none", hit |-> FALSE, evaluated |-> FALSE,
     history |-> << >>, entry |-> "none", io |-> FALSE, commit |-> 0]

\* The value returned by the call just made
Returned(op, res, hit, evaluated, history, io, commit) ==
    [op |-> op, res |-> res, hit |-> hit, evaluated |-> evaluated,
     history |-> history, entry |-> EntryStatus(ob.cache), io |-> io,
     commit |-> commit]

ObIdle ==
    [repo |-> << >>, schema |-> "ok", local |-> None, remote |-> None,
     cache |-> EmptyDisk, calls |-> 0, last |-> NoLast]

InitObjIdle == ob = ObIdle

\* create_object(.., spec, Some(cache_dir)) with spec.history a change of
\* kind `kind`; the put of the cache fails at `failAt`
CreateObject(kind, failAt) ==
    /\ ob.repo = << >>
    /\ ob.calls < MaxObjectCalls
    /\ \E out \in VAProposeChange(VANew("NameString"), [op |-> 1, kind |-> kind]) :
          IF out.err # "none"
          THEN ob' = [ob EXCEPT !.calls = @ + 1,
                        !.last = Returned("create", "Err", FALSE, FALSE, << >>, FALSE, 0)]
          ELSE LET repo == <<[tips |-> << >>, attrs |-> [OkAttrs EXCEPT !.kind = kind]]>>
                   init_change == ChangeLoad(repo, 1)[1]
                   thin_graph == ThinNewFromSingleChange(init_change.author_commit,
                                     "NameString", init_change.schema_commit, out.va)
                   put == CachePut(ob.cache, thin_graph, failAt)
               IN ob' = [RefsUpdateRef(ob, init_change.commit) EXCEPT
                           !.repo = repo,
                           !.cache = put.disk,
                           !.calls = @ + 1,
                           !.last = Returned("create", IF put.ok THEN "Ok" ELSE "Err",
                                             FALSE, FALSE, <<out.va.valid_history[1]>>,
                                             ~put.ok, init_change.commit)]
    /\ UNCHANGED otherThanObj

\* retrieve_object(.., oid, Some(cache_dir))
RetrieveObject(failAt) ==
    /\ ob.calls < MaxObjectCalls
    /\ \E tip_refs \in RefOrders(ObjectReferences(ob)) :
         LET tip_oids == Range(tip_refs)
             loaded == CacheLoad(ob.cache, tip_oids)
         IN IF loaded.res = "Err"
            THEN /\ failAt = "none"
                 /\ ob' = [ob EXCEPT !.calls = @ + 1,
                             !.last = Returned("retrieve", "Err", FALSE, FALSE, << >>, FALSE, 0)]
            ELSE IF loaded.res = "Some"
            THEN /\ failAt = "none"
                 /\ ob' = [ob EXCEPT !.calls = @ + 1,
                             !.last = Returned("retrieve", "Ok", TRUE, FALSE,
                                               ThinHistory(loaded.graph[1]), FALSE, 0)]
            ELSE \E e \in LoadAndEvaluate(ob.repo, ob.schema, tip_refs) :
                   IF e.built = "graph"
                   THEN LET cached == ThinNew(tip_oids, "NameString", SchemaCommit, e.va)
                            put == CachePut(ob.cache, cached, failAt)
                        IN ob' = [ob EXCEPT !.cache = put.disk, !.calls = @ + 1,
                                    !.last = Returned("retrieve",
                                                      IF put.ok THEN "Ok" ELSE "Err",
                                                      FALSE, TRUE, e.history, ~put.ok, 0)]
                   ELSE /\ failAt = "none"
                        /\ ob' = [ob EXCEPT !.calls = @ + 1,
                                    !.last = Returned("retrieve",
                                                      IF e.built = "nograph"
                                                      THEN "OkNone" ELSE e.built,
                                                      FALSE, TRUE, << >>, FALSE, 0)]
    /\ UNCHANGED otherThanObj

\* An update which creates the change commit although the change was rejected
UpdateRejectedMutCommits(o, kind) ==
    [o EXCEPT !.repo = Append(@, [tips |-> SetToSeq(Range(o.local \o o.remote)),
                                  attrs |-> [OkAttrs EXCEPT !.kind = kind]])]

\* update_object when propose_change has answered Err: `?` returns it, and
\* Change::create, update_ref and the second put are not reached
UpdateRejected(o, kind) == o

\* update_object, from `cached` on: propose_change, Change::create,
\* update_ref, cache.put, refs_storage.update_ref
UpdateCached(o, cached, kind, failAt, evaluated) ==
    LET new == Len(o.repo) + 1
    IN { IF out.err # "none"
         THEN [UpdateRejected(o, kind) EXCEPT !.calls = @ + 1,
                 !.last = Returned("update", "Propose", ~evaluated, evaluated, << >>, FALSE, 0)]
         ELSE LET repo == Append(o.repo, [tips |-> SetToSeq(ThinTips(out.g)),
                                          attrs |-> [OkAttrs EXCEPT !.kind = kind]])
                  change == ChangeLoad(repo, new)[1]
                  updated == ThinUpdateRef(out.g, o.local, change.commit)
                  put == CachePut(o.cache, updated,
                                  IF failAt = "update_ref" THEN "none" ELSE failAt)
              IN IF put.ok /\ failAt = "update_ref"
                 THEN [o EXCEPT
                         !.repo = repo, !.cache = put.disk, !.calls = @ + 1,
                         !.last = Returned("update", "Refs", ~evaluated, evaluated,
                                           << >>, FALSE, change.commit)]
                 ELSE IF put.ok
                 THEN [RefsUpdateRef(o, change.commit) EXCEPT
                         !.repo = repo, !.cache = put.disk, !.calls = @ + 1,
                         !.last = Returned("update", "Ok", ~evaluated, evaluated,
                                           ThinHistory(updated), FALSE, change.commit)]
                 ELSE [o EXCEPT
                         !.repo = repo, !.cache = put.disk, !.calls = @ + 1,
                         !.last = Returned("update", "Err", ~evaluated, evaluated,
                                           << >>, TRUE, change.commit)] :
         out \in ThinProposeChange(cached, [op |-> new, kind |-> kind]) }

\* What can fail in update_object once the object is loaded: a put, or
\* refs_storage.update_ref
UpdateFailures == PutFailures \cup {"update_ref"}

\* update_object(.., spec, Some(cache_dir)) with spec.changes a change of kind
\* `kind`; the first put of the call to fail fails at `failAt`, or
\* refs_storage.update_ref fails
UpdateObject(kind, failAt) ==
    /\ ob.calls < MaxObjectCalls
    /\ Len(ob.repo) < NumCommits
    /\ \E existing_refs \in RefOrders(ObjectReferences(ob)) :
         LET tip_oids == Range(existing_refs)
             loaded == CacheLoad(ob.cache, tip_oids)
         IN IF loaded.res = "Err"
            THEN /\ failAt = "none"
                 /\ ob' = [ob EXCEPT !.calls = @ + 1,
                             !.last = Returned("update", "Err", FALSE, FALSE, << >>, FALSE, 0)]
            ELSE IF loaded.res = "Some"
            THEN ob' \in UpdateCached(ob, loaded.graph[1], kind, failAt, FALSE)
            ELSE \E e \in LoadAndEvaluate(ob.repo, ob.schema, existing_refs) :
                   IF e.built = "graph"
                   THEN LET cached == ThinNew(tip_oids, "NameString", SchemaCommit, e.va)
                        IN \/ /\ failAt \in PutFailures \ {"none"}
                              /\ ob' = [ob EXCEPT
                                          !.cache = CachePut(ob.cache, cached, failAt).disk,
                                          !.calls = @ + 1,
                                          !.last = Returned("update", "Err", FALSE, TRUE,
                                                            << >>, TRUE, 0)]
                           \/ ob' \in UpdateCached(
                                        [ob EXCEPT !.cache = CachePut(@, cached, "none").disk],
                                        cached, kind, failAt, TRUE)
                   ELSE /\ failAt = "none"
                        /\ ob' = [ob EXCEPT !.calls = @ + 1,
                                    !.last = Returned("update",
                                                      IF e.built = "nograph"
                                                      THEN "NoSuchObject" ELSE e.built,
                                                      FALSE, TRUE, << >>, FALSE, 0)]
    /\ UNCHANGED otherThanObj

\* A peer creates a change (the first one of the object, with the schema
\* change it names, or one on top of changes it has), and its reference to
\* the object arrives here
PeerChange(tips, attrs, schema) ==
    /\ ob.calls < MaxObjectCalls
    /\ Len(ob.repo) < NumCommits
    /\ tips \in ParentSeqs(Len(ob.repo) + 1)
    /\ ob.repo # << >> => schema = ob.schema
    /\ LET repo == Append(ob.repo, [tips |-> tips, attrs |-> attrs])
       IN /\ NumFaulty(repo, schema) <= MaxFaulty
          /\ ob' = [ob EXCEPT !.repo = repo, !.schema = schema,
                               !.remote = Some(Len(repo)),
                               !.calls = @ + 1, !.last = NoLast]
    /\ UNCHANGED otherThanObj

\* A peer's reference to the object arrives, pointing at a change the peer has
\* replicated
PeerReference(c) ==
    /\ c \in 1..Len(ob.repo)
    /\ ob.calls < MaxObjectCalls
    /\ ob.remote # Some(c)
    /\ ob' = [ob EXCEPT !.remote = Some(c), !.calls = @ + 1, !.last = NoLast]
    /\ UNCHANGED otherThanObj

NextObj ==
    \/ \E kind \in Kinds : \E failAt \in PutFailures : CreateObject(kind, failAt)
    \/ \E failAt \in PutFailures : RetrieveObject(failAt)
    \/ \E kind \in Kinds : \E failAt \in UpdateFailures : UpdateObject(kind, failAt)
    \/ \E c \in 1..NumCommits : \E tips \in ParentSeqs(c) : \E attrs \in ChangeAttrs :
          \E schema \in SchemaStatuses : PeerChange(tips, attrs, schema)
    \/ \E c \in 1..NumCommits : PeerReference(c)

(***************************************************************************)
(* SpecNoOp: load and put called on a NoOpCache, in a process whose cache  *)
(* directory may hold entries which a FileSystemCache wrote earlier        *)
(***************************************************************************)
MaxNoOpCalls == 2       \* calls of load and put on the NoOpCache in a run

\* The object ids the calls are made for
ObjectIds == {1, 2}

\* The entry a FileSystemCache leaves for a graph
EntryOf(g) == CachePut(EmptyDisk, g, "none").disk

\* NoOpCache::put(_oid, _graph): [dirs, ok]
NoOpCachePut(dirs, oid, graph) == [dirs |-> dirs, ok |-> TRUE]

\* A load which reads the directory as FileSystemCache::load does
NoOpCacheLoadMutReadsDisk(dirs, oid, known_tips) == CacheLoad(dirs[oid], known_tips)

\* NoOpCache::load(_oid, _known_tips): [res, graph]
NoOpCacheLoad(dirs, oid, known_tips) == [res |-> "None", graph |-> None]

NcIdle == [dirs |-> [o \in ObjectIds |-> EmptyDisk], first |-> [o \in ObjectIds |-> EmptyDisk],
           calls |-> << >>]

InitNoOpIdle == nc = NcIdle

InitNoOpCache ==
    \E dirs \in [ObjectIds -> {EmptyDisk} \cup { EntryOf(g) : g \in PutGraphs }] :
        nc = [dirs |-> dirs, first |-> dirs, calls |-> << >>]

NoOpPut(oid, g) ==
    /\ Len(nc.calls) < MaxNoOpCalls
    /\ LET out == NoOpCachePut(nc.dirs, oid, Some(g))
       IN nc' = [nc EXCEPT !.dirs = out.dirs,
                           !.calls = Append(@, [op |-> "put", oid |-> oid, refs |-> g.refs,
                                                res |-> IF out.ok THEN "Ok" ELSE "Err"])]
    /\ UNCHANGED otherThanNoOp

NoOpLoad(oid, known_tips) ==
    /\ Len(nc.calls) < MaxNoOpCalls
    /\ LET out == NoOpCacheLoad(nc.dirs, oid, known_tips)
       IN nc' = [nc EXCEPT !.calls = Append(@, [op |-> "load", oid |-> oid,
                                                refs |-> known_tips, res |-> out.res])]
    /\ UNCHANGED otherThanNoOp

NextNoOp ==
    \/ \E oid \in ObjectIds : \E g \in PutGraphs : NoOpPut(oid, g)
    \/ \E oid \in ObjectIds : \E r \in KnownRefs : NoOpLoad(oid, r)

(***************************************************************************)
(* SpecServer: run_until_idle.  A MortalServer is polled by its executor;  *)
(* around it tasks are sent on the stream, tasks complete, the sender of   *)
(* the stream goes away and time passes.                                   *)
(***************************************************************************)
MaxTasks == 2
IdleTimeout == 2
MaxTime == 5

TaskIds == 1..MaxTasks

\* crate::sleep(idle_timeout): a timer that is ready from its deadline on
Sleep(now) == now + IdleTimeout

SleepReady(s) == s.now >= s.deadline

\* run_until_idle: Idle, with a sleep started at construction
RunUntilIdle ==
    [state |-> "Idle", ongoing |-> {}, deadline |-> Sleep(0),
     queue |-> {}, finished |-> {}, closed |-> FALSE, none |-> FALSE, spawned |-> 0,
     now |-> 0, lastBusy |-> 0, out |-> "Pending", how |-> "none"]

SrvIdle == [RunUntilIdle EXCEPT !.out = "Unused"]

InitServerIdle == srv = SrvIdle

InitServerRun == srv = RunUntilIdle

PollsStreamMutServicingOnly(state) == state = "Servicing"

\* poll's first block is entered in these states only
PollsStream(state) == state \in {"Idle", "Servicing"}

\* The loop over self.tasks.poll_next_unpin: every task the stream holds is
\* taken; the loop ends on Pending, or on None once the sender is gone.  A
\* stream polled again after it returned None is outside the contract of
\* Stream: it may return None again, stay pending, or panic.
DrainStream(s) ==
    IF s.none
    THEN { [new_tasks |-> {}, finish |-> TRUE, panic |-> FALSE],
           [new_tasks |-> {}, finish |-> FALSE, panic |-> FALSE],
           [new_tasks |-> {}, finish |-> FALSE, panic |-> TRUE] }
    ELSE { [new_tasks |-> s.queue, finish |-> s.closed, panic |-> FALSE] }

\* The state after the first block of poll
AfterStream(s, d) ==
    LET t == [s EXCEPT !.queue = {}, !.none = @ \/ d.finish]
    IN IF s.state = "Servicing"
       THEN [t EXCEPT !.ongoing = @ \cup d.new_tasks,
                      !.state = IF d.finish THEN "Finishing" ELSE @]
       ELSE IF d.new_tasks # {}
            THEN [t EXCEPT !.ongoing = d.new_tasks,
                           !.state = IF d.finish THEN "Finishing" ELSE "Servicing"]
            ELSE t

\* FuturesUnordered::poll_next in a loop: the completed tasks are yielded
Reap(s) == s.ongoing \ s.finished

\* The match on self.state.  In Finishing the loop goes on for as long as
\* poll_next is Ready, and the poll_next of an empty FuturesUnordered is
\* Ready(None): the loop is left only on Pending, with a task still running.
PollState(s) ==
    CASE s.state = "Servicing" ->
            IF Reap(s) = {}
            THEN [s EXCEPT !.ongoing = {}, !.state = "Idle", !.deadline = Sleep(s.now)]
            ELSE [s EXCEPT !.ongoing = Reap(s)]
      [] s.state = "Finishing" ->
            IF Reap(s) = {}
            THEN [s EXCEPT !.ongoing = {}, !.out = "Spin"]
            ELSE [s EXCEPT !.ongoing = Reap(s)]
      [] s.state = "Idle" ->
            IF SleepReady(s)
            THEN [s EXCEPT !.state = "Dead", !.out = "Ready", !.how = "timeout"]
            ELSE s
      [] OTHER -> [s EXCEPT !.out = "Ready"]

\* MortalServer::poll
MortalServerPoll(s) ==
    IF PollsStream(s.state)
    THEN { IF d.panic THEN [s EXCEPT !.out = "Panic"] ELSE PollState(AfterStream(s, d)) :
             d \in DrainStream(s) }
    ELSE { PollState(s) }

\* A task is in hand from the moment it is sent until the server has seen
\* it complete; lastBusy is the last time at which one was
Busy(s) == s.queue # {} \/ s.ongoing # {}

Stamp(s, t) == [t EXCEPT !.lastBusy = IF Busy(s) \/ Busy(t) THEN t.now ELSE @]

Running == srv.out = "Pending"

PollServer ==
    /\ Running
    /\ \E t \in MortalServerPoll(srv) : srv' = Stamp(srv, t)
    /\ UNCHANGED otherThanServer

SendTask ==
    /\ Running
    /\ ~srv.closed
    /\ srv.spawned < MaxTasks
    /\ srv' = Stamp(srv, [srv EXCEPT !.spawned = @ + 1, !.queue = @ \cup {srv.spawned + 1}])
    /\ UNCHANGED otherThanServer

TaskCompletes(t) ==
    /\ Running
    /\ t \in (srv.queue \cup srv.ongoing) \ srv.finished
    /\ srv' = Stamp(srv, [srv EXCEPT !.finished = @ \cup {t}])
    /\ UNCHANGED otherThanServer

CloseStream ==
    /\ Running
    /\ ~srv.closed
    /\ srv' = Stamp(srv, [srv EXCEPT !.closed = TRUE])
    /\ UNCHANGED otherThanServer

Tick ==
    /\ Running
    /\ srv.now < MaxTime
    /\ srv' = Stamp(srv, [srv EXCEPT !.now = @ + 1])
    /\ UNCHANGED otherThanServer

NextServer ==
    \/ PollServer
    \/ SendTask
    \/ \E t \in TaskIds : TaskCompletes(t)
    \/ CloseStream
    \/ Tick

(***************************************************************************)
(* SpecHeads: default_branch_head.  The repository is a commit graph in    *)
(* which a commit's parents are older commits; each peer of the            *)
(* delegations has published a tip of the default branch or nothing.  The  *)
(* loop over the peers takes them in the order of the delegations, which   *)
(* is any order.                                                           *)
(***************************************************************************)
NumOids == 3
NumPeers == 3

Oids == 1..NumOids
PeerIds == 1..NumPeers

\* The commit graphs: parents[c] for every commit c
CommitGraphs == { g \in [Oids -> SUBSET Oids] : \A c \in Oids : g[c] \subseteq 1..(c - 1) }

\* The revwalk from tip, without tip itself
RECURSIVE Revwalk(_, _)
Revwalk(parents, tip) == UNION { {p} \cup Revwalk(parents, p) : p \in parents[tip] }

\* History::load
HistoryLoad(parents, peer, tip) ==
    [tip |-> tip, tip_peers |-> {peer}, ancestors |-> Revwalk(parents, tip),
     ancestor_peers |-> {}]

\* The first loop of add_peer: the peer joins every history that has its tip
\* among the ancestors or as the tip
JoinHistories(histories, peer, tip) ==
    [i \in 1..Len(histories) |->
        IF tip \in histories[i].ancestors
        THEN [histories[i] EXCEPT !.ancestor_peers = @ \cup {peer}]
        ELSE IF histories[i].tip = tip
             THEN [histories[i] EXCEPT !.tip_peers = @ \cup {peer}]
             ELSE histories[i]]

FoundDescendant(histories, tip) ==
    \E i \in 1..Len(histories) : tip \in histories[i].ancestors \/ histories[i].tip = tip

IncorporateMutKeepsAll(histories, history) == Append(histories, history)

\* The second loop of add_peer: the histories whose tip is an ancestor of the
\* new history are removed and their peers become ancestor peers of the new
\* one, which is pushed last
Incorporate(histories, history) ==
    LET older == { i \in 1..Len(histories) : histories[i].tip \in history.ancestors }
        keep == SelectSeq(histories, LAMBDA h : h.tip \notin history.ancestors)
        peers == UNION { histories[i].ancestor_peers \cup histories[i].tip_peers : i \in older }
    IN Append(keep, [history EXCEPT !.ancestor_peers = @ \cup peers])

\* Multiverse::add_peer
MultiverseAddPeer(histories, parents, peer, tip) ==
    IF FoundDescendant(histories, tip)
    THEN JoinHistories(histories, peer, tip)
    ELSE Incorporate(histories, HistoryLoad(parents, peer, tip))

\* Multiverse::finish; Forked holds a BTreeSet of Fork
MultiverseFinish(histories) ==
    IF Len(histories) = 0 THEN [res |-> "NoTips", target |-> None, forks |-> {}]
    ELSE IF Len(histories) = 1
         THEN [res |-> "Head", target |-> Some(histories[1].tip), forks |-> {}]
         ELSE [res |-> "Forked", target |-> None,
               forks |-> { [ancestor_peers |-> histories[i].ancestor_peers,
                            tip_peers |-> histories[i].tip_peers,
                            tip |-> histories[i].tip] : i \in 1..Len(histories) }]

HdIdle == [parents |-> [c \in Oids |-> {}], tips |-> [p \in PeerIds |-> None],
           histories |-> << >>, added |-> << >>, out |-> "Unused",
           head |-> [res |-> "none", target |-> None, forks |-> {}]]

InitHeadsIdle == hd = HdIdle

InitHeadsRun ==
    \E parents \in CommitGraphs : \E tips \in [PeerIds -> {None} \cup { Some(c) : c \in Oids }] :
        hd = [HdIdle EXCEPT !.parents = parents, !.tips = tips, !.out = "Running"]

Added == { hd.added[i] : i \in 1..Len(hd.added) }

\* One turn of the loop over the peers: peer_commit, then add_peer
AddPeer(peer) ==
    /\ hd.out = "Running"
    /\ peer \notin Added
    /\ hd' = [hd EXCEPT !.added = Append(@, peer),
                        !.histories = IF hd.tips[peer] = None THEN @
                                      ELSE MultiverseAddPeer(@, hd.parents, peer,
                                                             hd.tips[peer][1])]
    /\ UNCHANGED otherThanHeads

Finish ==
    /\ hd.out = "Running"
    /\ Added = PeerIds
    /\ hd' = [hd EXCEPT !.out = "Returned", !.head = MultiverseFinish(hd.histories)]
    /\ UNCHANGED otherThanHeads

NextHeads ==
    \/ \E peer \in PeerIds : AddPeer(peer)
    \/ Finish

(***************************************************************************)
(* SpecTransport: messages written by a MessageWriter at one end of a      *)
(* socket and read by a MessageReader at the other.  The socket is a byte  *)
(* stream: a write takes some of the bytes offered, a read returns some of *)
(* the bytes in flight, and 0 once the writing end is gone and nothing is  *)
(* in flight.                                                              *)
(***************************************************************************)
MaxMessages == 2
MaxItemLen == 1

WireBytes == {0, 1}

ByteSeqs(n) == UNION { [1..k -> WireBytes] : k \in 0..n }

\* Message<E>: the headers, here a string of bytes, and a payload.  The
\* payload of a message made from a request or a response is absent or an
\* encoded item, which has at least one byte.
WireMessages ==
    [headers : ByteSeqs(MaxItemLen),
     payload : {None} \cup { Some(b) : b \in ByteSeqs(MaxItemLen) \ {<< >>} }]

\* u32::to_be_bytes and u32::from_be_bytes
ToBeBytes(n) ==
    << (n \div 16777216) % 256, (n \div 65536) % 256, (n \div 256) % 256, n % 256 >>

FromBeBytes(b) == b[1] * 16777216 + b[2] * 65536 + b[3] * 256 + b[4]

\* minicbor::encode of the headers: an item that carries its own length
EncodeHeaders(h) == <<Len(h)>> \o h

\* minicbor::Decoder::decode of the headers, and the decoder's position after
DecodeHeaders(buffer) ==
    IF Len(buffer) >= 1 /\ Len(buffer) >= 1 + buffer[1]
    THEN [ok |-> TRUE, headers |-> SubSeq(buffer, 2, 1 + buffer[1]), position |-> 1 + buffer[1]]
    ELSE [ok |-> FALSE, headers |-> << >>, position |-> 0]

\* MessageWriter::serialize; the length of a body is far below 2^32
Serialize(msg) ==
    LET body == EncodeHeaders(msg.headers) \o (IF msg.payload = None THEN << >> ELSE msg.payload[1])
    IN ToBeBytes(Len(body)) \o body

\* MessageReader::parse
Parse(buffer) ==
    LET dec == DecodeHeaders(buffer)
    IN IF ~dec.ok THEN [res |-> "DecodeFailed", msg |-> None]
       ELSE [res |-> "Some",
             msg |-> Some([headers |-> dec.headers,
                           payload |-> IF dec.position < Len(buffer)
                                       THEN Some(SubSeq(buffer, dec.position + 1, Len(buffer)))
                                       ELSE None])]

FillMutFirstReadOnly(buf, o, chunk) ==
    [i \in 1..Len(buf) |-> IF o = 0 /\ i <= Len(chunk) THEN chunk[i] ELSE buf[i]]

\* reader.read(&mut buf[o..]) having returned Len(chunk) bytes
Fill(buf, o, chunk) ==
    [i \in 1..Len(buf) |-> IF i > o /\ i <= o + Len(chunk) THEN chunk[i - o] ELSE buf[i]]

Zeros(n) == [i \in 1..n |-> 0]

\* ReadState::new, in a MessageReader::new
NewReader == [state |-> "ReadLen", buf |-> Zeros(4), o |-> 0, buffer |-> << >>]

NoReader == [NewReader EXCEPT !.state = "None"]

\* What the read of the current arm of read_message_async asks for: the
\* number of bytes of room, 0 in the arms that do not read
Room(r) ==
    CASE r.state = "ReadLen" -> 4 - r.o
      [] r.state = "ReadVal" /\ r.o < Len(r.buffer) -> Len(r.buffer) - r.o
      [] OTHER -> 0

\* One turn of the loop of read_message_async in which read returned chunk
\* (empty at the end of the stream): the reader after it, and what the call
\* returns if it returns
ReadTurn(r, chunk) ==
    CASE r.state = "ReadLen" /\ r.o = 4 ->
            [reader |-> [r EXCEPT !.state = "ReadVal", !.o = 0,
                                  !.buffer = Zeros(FromBeBytes(r.buf))],
             res |-> "Continue", msg |-> None]
      [] r.state = "ReadLen" /\ r.o < 4 ->
            IF Len(chunk) = 0
            THEN [reader |-> r, res |-> "None", msg |-> None]
            ELSE [reader |-> [r EXCEPT !.buf = Fill(@, r.o, chunk),
                                       !.o = (@ + Len(chunk)) % 256],
                  res |-> "Continue", msg |-> None]
      [] r.state = "ReadVal" /\ r.o >= Len(r.buffer) ->
            [reader |-> [r EXCEPT !.state = "ReadLen", !.buf = Zeros(4), !.o = 0],
             res |-> Parse(r.buffer).res, msg |-> Parse(r.buffer).msg]
      [] OTHER ->
            IF Len(chunk) = 0
            THEN [reader |-> r, res |-> "UnexpectedEof", msg |-> None]
            ELSE [reader |-> [r EXCEPT !.buffer = Fill(@, r.o, chunk), !.o = @ + Len(chunk)],
                  res |-> "Continue", msg |-> None]

IoIdle == [wire |-> << >>, closed |-> FALSE, sent |-> << >>, received |-> << >>,
           writer |-> [buffer |-> << >>, offset_written |-> 0, busy |-> FALSE],
           reader |-> NoReader, partial |-> FALSE, out |-> "Unused"]

InitTransportIdle == sock = IoIdle

InitTransportRun == sock = [IoIdle EXCEPT !.out = "Open"]

\* send_request, send_response: a MessageWriter is made and the message is
\* serialized into its buffer
SendMessage(msg) ==
    /\ sock.out = "Open"
    /\ ~sock.closed /\ ~sock.writer.busy
    /\ Len(sock.sent) < MaxMessages
    /\ sock' = [sock EXCEPT !.sent = Append(@, msg),
                        !.writer = [buffer |-> Serialize(msg), offset_written |-> 0,
                                    busy |-> TRUE]]
    /\ UNCHANGED otherThanTransport

\* One turn of the loop of write_message_async: the socket takes n bytes
WriteSome(n) ==
    /\ sock.writer.busy
    /\ n \in 1..(Len(sock.writer.buffer) - sock.writer.offset_written)
    /\ LET w == sock.writer
           off == w.offset_written + n
       IN sock' = [sock EXCEPT !.wire = @ \o SubSeq(w.buffer, w.offset_written + 1, off),
                           !.writer = [w EXCEPT !.offset_written = off,
                                                !.busy = off < Len(w.buffer)]]
    /\ UNCHANGED otherThanTransport

\* The sending end is dropped, no write being in progress
DropSender ==
    /\ sock.out = "Open"
    /\ ~sock.closed /\ ~sock.writer.busy
    /\ sock' = [sock EXCEPT !.closed = TRUE]
    /\ UNCHANGED otherThanTransport

\* recv_request, recv_response: a MessageReader is made
RecvMessage ==
    /\ sock.out = "Open"
    /\ sock.reader.state = "None"
    /\ Len(sock.received) <= MaxMessages
    /\ sock' = [sock EXCEPT !.reader = NewReader]
    /\ UNCHANGED otherThanTransport

Returned_(t) ==
    IF t.res = "Continue" THEN [sock EXCEPT !.reader = t.reader]
    ELSE [sock EXCEPT !.reader = NoReader,
                    !.received = Append(@, [res |-> t.res, msg |-> t.msg])]

\* A turn of the loop of read_message_async that does not read
ReadAdvance ==
    /\ sock.reader.state # "None"
    /\ Room(sock.reader) = 0
    /\ sock' = Returned_(ReadTurn(sock.reader, << >>))
    /\ UNCHANGED otherThanTransport

\* A turn in which read returns the next n bytes in flight
ReadSome(n) ==
    /\ sock.reader.state # "None"
    /\ n \in 1..Room(sock.reader)
    /\ n <= Len(sock.wire)
    /\ LET t == ReadTurn(sock.reader, SubSeq(sock.wire, 1, n))
       IN sock' = [Returned_(t) EXCEPT !.wire = SubSeq(@, n + 1, Len(@)),
                                     !.partial = @ \/ n < Room(sock.reader)]
    /\ UNCHANGED otherThanTransport

\* A turn in which read returns 0: the sending end is gone, nothing in flight
ReadEof ==
    /\ sock.reader.state # "None"
    /\ Room(sock.reader) > 0
    /\ sock.closed /\ sock.wire = << >>
    /\ sock' = Returned_(ReadTurn(sock.reader, << >>))
    /\ UNCHANGED otherThanTransport

NextTransport ==
    \/ \E msg \in WireMessages : SendMessage(msg)
    \/ \E n \in 1..(4 + 2 * MaxItemLen + 1) : WriteSome(n)
    \/ DropSender
    \/ RecvMessage
    \/ ReadAdvance
    \/ \E n \in 1..(4 + 2 * MaxItemLen + 1) : ReadSome(n)
    \/ ReadEof

(***************************************************************************)
(* SpecAuthor: the author check of evaluate, made on changes of objects    *)
(* that live in a project or belong to a person                            *)
(***************************************************************************)
MaxChecks == 2

IdentityCommits ==
    {ProjectCommit, OtherProjectCommit, MaintainerCommit, StrangerCommit}

\* The identities a containing identity commit can resolve to
Identities == { LookupIdentity(c)[1] : c \in IdentityCommits }

\* The commits the author trailer of a change can name
AuthorCommits == IdentityCommits \cup {UnknownCommit}

InitAuthorIdle == au = << >>

\* evaluate reaches the author check on a change
CheckAuthor(containing_identity, author_commit) ==
    /\ Len(au) < MaxChecks
    /\ au' = Append(au, [containing_identity |-> containing_identity,
                         author_commit |-> author_commit,
                         pass |-> AuthorCheck(containing_identity, author_commit)])
    /\ UNCHANGED otherThanAuthor

NextAuthor ==
    \E containing_identity \in Identities : \E author_commit \in AuthorCommits :
        CheckAuthor(containing_identity, author_commit)

(***************************************************************************)
(* The specifications                                                      *)
(***************************************************************************)
Init == InitCache /\ InitVAIdle /\ InitEvalIdle /\ InitObjIdle /\ InitNoOpIdle /\ InitServerIdle /\ InitHeadsIdle /\ InitTransportIdle /\ InitAuthorIdle

Spec == Init /\ [][NextCache]_vars

InitLive == InitCache /\ InitVAIdle /\ InitEvalIdle /\ InitObjIdle /\ InitNoOpIdle /\ InitServerIdle /\ InitHeadsIdle /\ InitTransportIdle /\ InitAuthorIdle

\* Spec with processes that do not crash: a call in progress goes on
SpecLive == InitLive /\ [][NextCache]_vars /\ \A p \in Procs : WF_vars(CallStep(p))

InitPropose == InitVA /\ InitCache /\ InitEvalIdle /\ InitObjIdle /\ InitNoOpIdle /\ InitServerIdle /\ InitHeadsIdle /\ InitTransportIdle /\ InitAuthorIdle

SpecVA == InitPropose /\ [][NextVA]_vars

InitWalk == InitEval /\ InitObjIdle /\ InitNoOpIdle /\ InitServerIdle /\ InitHeadsIdle /\ InitTransportIdle /\ InitAuthorIdle

SpecEval == InitWalk /\ [][NextEval]_vars

InitLoad == InitEval /\ InitObjIdle /\ InitNoOpIdle /\ InitServerIdle /\ InitHeadsIdle /\ InitTransportIdle /\ InitAuthorIdle

\* A call of ChangeGraph::load runs on: its loops and build are one thread
SpecLoad ==
    InitLoad /\ [][NextLoad]_vars /\ WF_vars(LoadTip) /\ WF_vars(Walk) /\ WF_vars(Build)

InitObj == InitCache /\ InitVAIdle /\ InitEvalIdle /\ InitObjIdle /\ InitNoOpIdle /\ InitServerIdle /\ InitHeadsIdle /\ InitTransportIdle /\ InitAuthorIdle

SpecObj == InitObj /\ [][NextObj]_vars

InitNoOp == InitCache /\ InitVAIdle /\ InitEvalIdle /\ InitObjIdle /\ InitNoOpCache /\ InitServerIdle /\ InitHeadsIdle /\ InitTransportIdle /\ InitAuthorIdle

SpecNoOp == InitNoOp /\ [][NextNoOp]_vars

InitServer == InitCache /\ InitVAIdle /\ InitEvalIdle /\ InitObjIdle /\ InitNoOpIdle /\ InitServerRun /\ InitHeadsIdle /\ InitTransportIdle /\ InitAuthorIdle

SpecServer == InitServer /\ [][NextServer]_vars

InitHeads == InitCache /\ InitVAIdle /\ InitEvalIdle /\ InitObjIdle /\ InitNoOpIdle /\ InitServerIdle /\ InitHeadsRun /\ InitTransportIdle /\ InitAuthorIdle

SpecHeads == InitHeads /\ [][NextHeads]_vars

InitTransport == InitCache /\ InitVAIdle /\ InitEvalIdle /\ InitObjIdle /\ InitNoOpIdle /\ InitServerIdle /\ InitHeadsIdle /\ InitTransportRun /\ InitAuthorIdle

SpecTransport == InitTransport /\ [][NextTransport]_vars

InitAuthor == InitCache /\ InitVAIdle /\ InitEvalIdle /\ InitObjIdle /\ InitNoOpIdle /\ InitServerIdle /\ InitHeadsIdle /\ InitTransportIdle /\ InitAuthorIdle

SpecAuthor == InitAuthor /\ [][NextAuthor]_vars


\* Change commits whose author trailer or containing identity trailer names
\* one of the change commits 1..n instead of an identity commit
SideLinkAttrs(n) ==
    { [OkAttrs EXCEPT !.author = a] : a \in 1..n }
    \cup { [OkAttrs EXCEPT !.identity = a] : a \in 1..n }

\* Some peer creates a change commit one of whose side-links is a change
\* commit already in the repository
CommitSideLinked(tips, attrs) ==
    /\ ev.phase = "repo"
    /\ attrs \in SideLinkAttrs(Len(ev.repo))
    /\ Commit(tips, attrs)

\* ChangeGraph::load on repositories in which a side-link of a change may
\* point at a change commit
NextSideLinks ==
    \/ \E c \in 1..NumCommits : \E tips \in ParentSeqs(c) : \E attrs \in ChangeAttrs :
          Commit(tips, attrs)
    \/ \E c \in 1..NumCommits : \E tips \in ParentSeqs(c) : \E attrs \in SideLinkAttrs(c - 1) :
          CommitSideLinked(tips, attrs)
    \/ \E tip_refs \in TipSeqs(NumCommits) : StartWalk(tip_refs)
    \/ LoadTip
    \/ Walk
    \/ Build

InitSideLinks == InitEval /\ InitObjIdle /\ InitNoOpIdle /\ InitServerIdle /\ InitHeadsIdle /\ InitTransportIdle /\ InitAuthorIdle

SpecSideLinks == InitSideLinks /\ [][NextSideLinks]_vars


InitAcquire == InitCache /\ InitVAIdle /\ InitEvalIdle /\ InitObjIdle /\ InitNoOpIdle /\ InitServerIdle /\ InitHeadsIdle /\ InitTransportIdle /\ InitAuthorIdle

\* Spec with processes whose acquire_lock keeps running (the sleeping thread
\* wakes up), while a process which holds the lock may stop for good
SpecAcquire == InitAcquire /\ [][NextCache]_vars /\ \A p \in Procs : WF_vars(AcquireStep(p))

(***************************************************************************)
(* Claims                                                                  *)
(***************************************************************************)
LoadReturned(p) == ret[p].op = "load" /\ ret[p].res \in {"Some", "None"}

\* C1: with several processes on one cache directory (and no I/O error, no
\* put running without the lock), load(id, R) returns Some exactly when R is
\* the tip set recorded by the most recent completed put of any process, and
\* None otherwise.
C1_StalenessAcrossProcesses ==
    \A p \in Procs :
        (LoadReturned(p) /\ ~log.ioFailed /\ ~log.unlocked) =>
            (ret[p].res = "Some" <=>
                (ret[p].lastPut # None /\ ret[p].refs = ret[p].lastPut[1].refs))

\* C2: whenever load(id, known_refs) returns Some(g), the tip set recorded in
\* g equals known_refs, for an entry from the hot_cache and from disk alike.
C2_SomeHasKnownRefs ==
    \A p \in Procs :
        (ret[p].op = "load" /\ ret[p].res = "Some") =>
            ret[p].graph[1].refs = ret[p].refs

\* C2 witness: a load returned Some from the hot_cache an entry which an
\* earlier load of the same process had read from disk.
C2_Witness ==
    \E p \in Procs :
        /\ ret[p].op = "load" /\ ret[p].res = "Some" /\ ret[p].src = "hot"
        /\ ret[p].graph[1].refs = LiveGraph.refs
        /\ ret[p].graph[1].history = None

\* C3: no torn reads: (with no I/O error) every load that returns Some
\* returns one of the states which the callers put, never a mixture of the
\* fields of two of them.
C3_NoTornReads ==
    \A p \in Procs :
        (ret[p].op = "load" /\ ret[p].res = "Some" /\ ~log.ioFailed) =>
            Snapshot(ret[p].graph[1]) \in { Snapshot(g) : g \in PutGraphs }

\* C4: round trip: a load with the tip set of g which directly follows a
\* completed put(id, g), by the same process or by a process with an empty
\* hot_cache, returns Some(h) with the history, schema and tips of g.
C4_RoundTrip ==
    \A p \in Procs :
        (/\ ret[p].op = "load"
         /\ ret[p].follows # None
         /\ ret[p].refs = ret[p].follows[1].refs) =>
            /\ ret[p].res = "Some"
            /\ ThinHistory(ret[p].graph[1]) = ret[p].follows[1].history
            /\ ret[p].graph[1].schema = ret[p].follows[1].schema
            /\ ThinTips(ret[p].graph[1]) = ret[p].follows[1].refs

\* C4 witness: a process with an empty hot_cache read back from disk the graph
\* with a live history which another process had just put.
C4_Witness ==
    \E p \in Procs :
        /\ ret[p].op = "load" /\ ret[p].res = "Some" /\ ret[p].src = "disk"
        /\ ret[p].follows = Some(Snapshot(LiveGraph))
        /\ log.putter # p

\* C5: rollback atomicity: after propose_change has rejected a change, the
\* JSON projection, the backend and the valid history are as before the call.
C5_RollbackAtomicity ==
    vaLast.err \in {"InvalidChange", "InvalidatesSchema"} =>
        /\ va.frontend = vaPrev.frontend
        /\ va.backend = vaPrev.backend
        /\ va.valid_history = vaPrev.valid_history

\* The changes whose checks in evaluate cannot succeed whatever was applied
\* before them
StaticallyInvalid(c) ==
    LET a == ev.repo[c].attrs
    IN \/ a.identity # ProjectCommit
       \/ ~a.sig
       \/ a.author # MaintainerCommit
       \/ a.kind \in {"malformed", "inapplicable"}

\* The changes evaluate rejected, or would have to reject
FailingChanges == ev.failed \cup { c \in Range(ev.g.nodes) : StaticallyInvalid(c) }

\* The change commits whose deltas make up the evaluated history
InHistory == { d.op : d \in Range(ev.history) }

Evaluated == ev.phase = "done" /\ ev.built = "graph"

\* C6: when evaluate has finished, no change that failed validation (wrong
\* containing identity, invalid signature, unauthorized author, rejected
\* delta) is in the evaluated history, nor any change reachable from the root
\* only through failing changes, and every change that passed and is
\* reachable from the root along passing changes is in it.
C6_PruningContainment ==
    Evaluated =>
        InHistory = ReachableThrough(ev.g, FailingChanges, {ev.root}) \ FailingChanges

\* A change failed, one of its children is in the history through another
\* parent and another of its children, reachable only through it, is not
C6_Witness ==
    /\ Evaluated
    /\ \E c \in ev.failed : \E d, x \in Range(ev.g.nodes) :
          /\ <<c, d>> \in Range(ev.g.edges) /\ d \in InHistory
          /\ <<c, x>> \in Range(ev.g.edges) /\ x \notin InHistory /\ x \notin ev.failed

\* C7: two evaluations of change graphs with the same nodes and edges, loaded
\* from the tip references in different orders, give the same History bytes.
C7_EvaluationDeterminism ==
    (/\ Evaluated
     /\ ev.run = 2
     /\ ev.first # None
     /\ Range(ev.g.nodes) = ev.first[1].nodes
     /\ Range(ev.g.edges) = ev.first[1].edges)
        => ev.history = ev.first[1].history

\* The tip set reference storage reports for the object
TipOids == Range(ob.local \o ob.remote)

\* The tip set recorded in the cache entry on disk
CachedRefs ==
    IF ob.cache.metadata = None THEN None
    ELSE Some(MetadataFromSlice(ob.cache.metadata[1]).refs)

\* C8: after create_object has succeeded with a cache directory, the cache
\* entry of the new object records as its tip set exactly {commit id of the
\* init change}, and a load with the unchanged references is a hit.
C8_CreateCachesInitTip ==
    (ob.last.op = "create" /\ ob.last.res = "Ok") =>
        /\ CachedRefs = Some({ob.last.commit})
        /\ CacheLoad(ob.cache, TipOids).res = "Some"

\* C9: after update_object has succeeded, the cache entry records exactly the
\* tip set reference storage reports afterwards (the new local commit and
\* every remote tip), and a load with that tip set returns the updated
\* document.
C9_UpdateCachesTipSet ==
    (ob.last.op = "update" /\ ob.last.res = "Ok") =>
        /\ CachedRefs = Some(TipOids)
        /\ CacheLoad(ob.cache, TipOids).res = "Some"
        /\ ThinHistory(CacheLoad(ob.cache, TipOids).graph[1]) = ob.last.history

\* C10: when the cache entry on disk is unreadable (one of its four files is
\* missing) and no I/O error strikes during the call, retrieve_object does
\* not return an error: it evaluates the graph.
C10_UnreadableEntryIsMiss ==
    (ob.last.op = "retrieve" /\ ob.last.entry = "unreadable" /\ ~ob.last.io) =>
        /\ ob.last.res \in {"Ok", "OkNone"}
        /\ ob.last.evaluated

\* No commit the references of the object lead to loads as a change
NoLoadableChange ==
    /\ TipOids # {}
    /\ \A tip_refs \in RefOrders(ObjectReferences(ob)) :
          \A e \in LoadAndEvaluate(ob.repo, ob.schema, tip_refs) : e.built = "nograph"

\* C11: when the references of an object lead to no loadable change (and the
\* cache gives no error), retrieve_object and update_object report a normal
\* "no such object" result, never an error.
C11_NoSuchObjectIsNone ==
    (/\ ob.last.op \in {"retrieve", "update"}
     /\ ob.last.entry = "absent" /\ ~ob.last.io
     /\ NoLoadableChange) =>
        ob.last.res = "OkNone"

\* C12: after any sequence of put and load calls on a NoOpCache, every load
\* has returned Ok(None) and every put Ok(()), and no entry of the cache
\* directory was created or changed.
C12_NoOpCache ==
    /\ \A i \in 1..Len(nc.calls) :
          nc.calls[i].res = IF nc.calls[i].op = "load" THEN "None" ELSE "Ok"
    /\ nc.dirs = nc.first

\* C12 witness: a put of a graph for an object is followed by a load of the
\* same object with the graph's tips, and the directory holds a fresh entry
\* for these tips which a FileSystemCache would have returned.
C12_Witness ==
    /\ Len(nc.calls) = 2
    /\ nc.calls[1].op = "put" /\ nc.calls[2].op = "load"
    /\ nc.calls[1].oid = nc.calls[2].oid
    /\ nc.calls[1].refs = nc.calls[2].refs
    /\ CacheLoad(nc.dirs[nc.calls[2].oid], nc.calls[2].refs).res = "Some"

\* The stages of load and put at which a file of the entry is read or written
FileStages ==
    {"load_check", "load_schema", "load_metadata", "load_document", "load_state",
     "put_mkdir", "put_schema", "put_metadata", "put_state", "put_document"}

\* C13: a call of load or put whose acquire_lock gave up after the bounded
\* number of attempts goes on to no read or write of the entry, and returns
\* an error.
C13_LockTimeoutFailsHard ==
    \A p \in Procs :
        /\ arg[p].timedout => pc[p] \notin FileStages
        /\ ret[p].timedout => ret[p].res = "Err"

LockStages == {"load_lock", "put_lock"}

\* The lock file exists only while the call which created it is in progress
LockRemovedOnReturn ==
    /\ \A p \in Procs : pc[p] = "idle" => ~held[p] /\ disk.lock # p
    /\ disk.lock # 0 => held[disk.lock]

OneHolder ==
    \A p, q \in Procs : (held[p] /\ held[q]) => p = q

\* C15: mutual exclusion: at most one process holds the lock file of the
\* object, and every read of the entry by load and every write of it by put
\* is made by a process that holds the lock.
C15_MutualExclusion ==
    /\ OneHolder
    /\ \A p \in Procs : pc[p] \in FileStages => (held[p] /\ disk.lock = p)

\* The init change of the object: the one change commit without tips, whose
\* commit id is the object id
InitChange == 1

\* C16: in every ChangeGraph which load returns and which holds the init
\* change of the object, the node taken as root (the first node without
\* incoming edge, where evaluate starts) is the init change.
C16_RootIsInitChange ==
    (/\ ev.built = "graph"
     /\ ev.root # 0
     /\ InitChange \in Range(ev.g.nodes)) =>
        ev.root = InitChange

\* What build answers for a schema change which is not in order
BuildError(schema) ==
    CASE schema = "badsig" -> "InvalidSchemaSignatures"
      [] schema = "noidentity" -> "NoSchemaContainingIdentityFound"
      [] schema = "otheridentity" -> "SchemaContainingUrnIncorrect"
      [] OTHER -> "none"

\* C17: when the schema change of the root has an invalid signature, or its
\* containing identity cannot be resolved or is not the object's, a
\* retrieve_object or update_object which gets as far as ChangeGraph::load
\* returns the error of build, returns no object, and the object has no
\* cache entry.
C17_BadSchemaFailsBuild ==
    (/\ ob.schema \in {"badsig", "noidentity", "otheridentity"}
     /\ ~NoLoadableChange) =>
        /\ ob.cache = EmptyDisk
        /\ (ob.last.op \in {"retrieve", "update"} /\ TipOids # {}) =>
              /\ ob.last.res = BuildError(ob.schema)
              /\ ob.last.history = << >>
              /\ ob.last.commit = 0

\* C17 witness: an update of an object of two changes whose schema change
\* names another project as its containing identity has returned.
C17_Witness ==
    /\ ob.schema = "otheridentity"
    /\ Len(ob.repo) = 2
    /\ ob.last.op = "update"
    /\ ob.last.res = "SchemaContainingUrnIncorrect"

\* The change commits of the repository which load as a Change
Loadable == { c \in DOMAIN ev.repo : ev.repo[c].attrs.loads }

\* The loadable changes which the commits of `seen` lead to through loadable
\* changes
RECURSIVE LoadableReach(_)
LoadableReach(seen) ==
    LET more == { p \in Loadable \ seen : \E c \in seen : p \in Range(ev.repo[c].tips) }
    IN IF more = {} THEN seen ELSE LoadableReach(seen \cup more)

\* C18: when the walk of ChangeGraph::load is over, the nodes of the graph
\* are exactly the loadable changes reachable from the tip references through
\* loadable changes, its edges are the parent links between them, and a
\* commit which does not load has made load return no error.
C18_UnloadableSkipped ==
    ev.built # "none" =>
        /\ Range(ev.g.nodes) = LoadableReach(Range(ev.tips) \cap Loadable)
        /\ Range(ev.g.edges) =
              { <<p, c>> \in Range(ev.g.nodes) \X Range(ev.g.nodes) :
                    p \in Range(ev.repo[c].tips) }
        /\ ev.schema = "ok" => ev.built \in {"graph", "nograph"}

\* C18 witness: a graph was built although a commit between two of its
\* changes does not load; the parent of that commit is in the graph by another
\* path, and some change behind a commit that does not load is not.
C18_Witness ==
    /\ ev.built = "graph"
    /\ \E u \in DOMAIN ev.repo \ Loadable : \E c, p \in Range(ev.g.nodes) :
          /\ u \in Range(ev.repo[c].tips)
          /\ p \in Range(ev.repo[u].tips)
    /\ Loadable \ Range(ev.g.nodes) # {}

\* C19: the walk of ChangeGraph::load terminates: once load has been called
\* the queue of pending (parent, child) pairs becomes empty and build is
\* reached.
C19_WalkTerminates ==
    (ev.phase \in {"tips", "walk"}) ~> (ev.built # "none" /\ ev.todo = << >>)

\* C19 witness: the walk has ended on a diamond: a change with two children
\* which are the two parents of another change, so that it was put in the
\* queue once through each child.
C19_Witness ==
    /\ ev.built = "graph"
    /\ ev.todo = << >>
    /\ \E a, b, c, d \in Range(ev.g.nodes) :
          /\ b # c
          /\ {<<a, b>>, <<a, c>>, <<b, d>>, <<c, d>>} \subseteq Range(ev.g.edges)

\* The documents an evaluation of the object as it stands can give
EvaluatedHistories ==
    { e.history : e \in UNION { LoadAndEvaluate(ob.repo, ob.schema, tip_refs) :
                                  tip_refs \in RefOrders(ObjectReferences(ob)) } }

\* C20: a step in which update_object returns the error of propose_change
\* creates no change commit and moves no reference, and after it the cache
\* entry records the tip set and the document of before the update: the entry
\* as it was when the call found it fresh, the evaluated document otherwise.
C20_RejectedUpdateFrame ==
    [][(ob'.last.op = "update" /\ ob'.last.res = "Propose") =>
          /\ ob'.repo = ob.repo
          /\ ob'.local = ob.local
          /\ ob'.remote = ob.remote
          /\ EntryStatus(ob'.cache) = "readable"
          /\ MetadataFromSlice(ob'.cache.metadata[1]).refs = TipOids
          /\ IF ob'.last.hit
             THEN ob'.cache = ob.cache
             ELSE ob'.cache.document[1] \in EvaluatedHistories]_vars

\* C20 witness: an update of an object of two changes with a change which
\* violates the schema was rejected, the call having found a fresh cache
\* entry.
C20_Witness ==
    /\ ob.last.op = "update" /\ ob.last.res = "Propose"
    /\ ob.last.hit
    /\ Len(ob.repo) = 2
    /\ ob.local = Some(2)

\* C21: once the task stream of run_until_idle has returned None, the server
\* completes as soon as no task it started is left: at once when none was
\* running, and after the last of them completed otherwise.
C21_CompletesAfterNone ==
    (srv.none /\ srv.ongoing = {}) => srv.out = "Ready"

\* C22: run_until_idle completes by the idle timeout only when no task is in
\* hand (none running, none waiting on the stream) and none was for a whole
\* idle_timeout: a task that is running or that arrived keeps the timer off.
C22_TimeoutOnlyAfterIdlePeriod ==
    srv.how = "timeout" =>
        /\ ~Busy(srv)
        /\ srv.now - srv.lastBusy >= IdleTimeout

\* The server served a task, went idle again and was ended by the timeout
\* that started when the task was seen to complete.
C22_Witness ==
    /\ srv.how = "timeout"
    /\ srv.finished # {}
    /\ srv.lastBusy > 0

\* The tips the peers published, and the order of ancestry among them
PublishedTips == { hd.tips[p][1] : p \in { q \in PeerIds : hd.tips[q] # None } }

Below(c) == Revwalk(hd.parents, c)

MaximalTips == { t \in PublishedTips : \A u \in PublishedTips : t \notin Below(u) }

\* C23: default_branch_head fails with NoTips when no peer published a tip,
\* returns Head with the tip that is equal to or a descendant of every
\* published tip when there is one, and otherwise Forked with one Fork for
\* every maximal published tip.
C23_HeadIffGreatestTip ==
    hd.out = "Returned" =>
        /\ hd.head.res = "NoTips" <=> PublishedTips = {}
        /\ hd.head.res = "Head" <=>
              \E t \in PublishedTips : \A u \in PublishedTips : u = t \/ u \in Below(t)
        /\ hd.head.res = "Head" =>
              \A u \in PublishedTips : u = hd.head.target[1] \/ u \in Below(hd.head.target[1])
        /\ hd.head.res = "Forked" =>
              /\ { f.tip : f \in hd.head.forks } = MaximalTips
              /\ Cardinality(hd.head.forks) = Cardinality(MaximalTips)

\* Two peers forked and the third is behind one of them
C23_Witness ==
    /\ hd.out = "Returned"
    /\ hd.head.res = "Forked"
    /\ Cardinality(hd.head.forks) = 2
    /\ \E p \in PeerIds : hd.tips[p] # None /\ hd.tips[p][1] \notin MaximalTips

\* C24: in every Fork returned, tip_peers are the peers whose tip is the
\* fork's tip and ancestor_peers are the peers whose tip is a strict ancestor
\* of it, whatever the order in which the peers were added.
C24_ForkPeersExact ==
    (hd.out = "Returned" /\ hd.head.res = "Forked") =>
        \A f \in hd.head.forks :
            /\ f.tip_peers = { p \in PeerIds : hd.tips[p] = Some(f.tip) }
            /\ f.ancestor_peers =
                  { p \in PeerIds : hd.tips[p] # None /\ hd.tips[p][1] \in Below(f.tip) }

\* C25: what the receiving end of a socket transport gets is, in order, the
\* messages the other end sent, each equal to what was sent, however the
\* bytes were split into writes and reads; a receive returns None only after
\* the sender is gone and every message sent was received, and none fails.
C25_RoundTrip ==
    \A i \in 1..Len(sock.received) :
        IF i <= Len(sock.sent)
        THEN sock.received[i] = [res |-> "Some", msg |-> Some(sock.sent[i])]
        ELSE sock.closed /\ sock.received[i] = [res |-> "None", msg |-> None]

\* Two messages, the second with a payload, were received over reads that
\* returned less than was asked for, and the receive after the sender was
\* dropped returned None.
C25_Witness ==
    /\ Len(sock.sent) = 2 /\ Len(sock.received) = 3
    /\ sock.sent[2].payload # None
    /\ sock.sent[1] # sock.sent[2]
    /\ sock.partial
    /\ sock.received[3].res = "None"

\* The change commits whose delta the document under evaluation holds, in
\* whole or in part
InDocument ==
    { d.op : d \in ev.va.backend.applied \cup ev.va.backend.residue
                     \cup Range(ev.va.valid_history) }

\* C26: during evaluate, every change whose delta has reached the document
\* names the object's containing identity, carries valid signatures and is
\* authored by a person entitled to change the object; the delta of a change
\* failing one of the three checks is never in the document.
C26_OnlyCheckedDeltasInDocument ==
    \A c \in InDocument :
        /\ ev.repo[c].attrs.identity = ProjectCommit
        /\ ev.repo[c].attrs.sig
        /\ ev.repo[c].attrs.author = MaintainerCommit

\* evaluate has pruned a change for one of the three checks after it had
\* applied the delta of another.
C26_Witness ==
    /\ ev.phase = "done" /\ ev.built = "graph"
    /\ InDocument # {}
    /\ \E c \in ev.failed :
          LET a == ev.repo[c].attrs
          IN a.kind = "str" /\ (~a.sig \/ a.identity # ProjectCommit \/ a.author # MaintainerCommit)

\* C27: a change passes the author check of evaluate exactly when its author
\* commit resolves to a person and either the containing identity is a person
\* with the URN of the author, or it is a project of which the author is a
\* maintainer; an author that is a project or does not resolve is pruned.
C27_AuthorRule ==
    \A i \in 1..Len(au) :
        LET containing == au[i].containing_identity
            author == au[i].author_commit
        IN /\ au[i].pass <=>
                /\ author \in {MaintainerCommit, StrangerCommit}
                /\ \/ containing.type = "person" /\ containing.urn = author
                   \/ /\ containing.type = "project"
                      /\ containing.urn = ProjectCommit /\ author = MaintainerCommit
           /\ author \in {ProjectCommit, OtherProjectCommit, UnknownCommit} => ~au[i].pass

\* A person's own object changed by that person passed, and a change of it
\* by the maintainer of a project did not.
C27_Witness ==
    /\ Len(au) = 2
    /\ au[1].containing_identity.type = "person" /\ au[1].pass
    /\ au[2].containing_identity.type = "person"
    /\ au[2].author_commit = MaintainerCommit /\ ~au[2].pass

\* C28: evaluate starts from every node of the graph without incoming edge:
\* when it has finished, every change that passes validation and is
\* reachable along passing changes from any such node is in the history.
C28_EveryRootEvaluated ==
    Evaluated =>
        (ReachableThrough(ev.g, FailingChanges, Range(ExternalsIncoming(ev.g)))
            \ FailingChanges) \subseteq InHistory

\* C29: update_object advances the local reference before it updates the
\* cache entry: when advancing the reference has failed, the cache entry does
\* not record the new commit among the tips.
C29_RefBeforeCache ==
    (ob.last.op = "update" /\ ob.last.res = "Refs") =>
        (CachedRefs = None \/ ob.last.commit \notin CachedRefs[1])

\* The four files of an entry in the order of the claim, and the bytes a put
\* of graph g writes to each
EntryFiles == <<"schema", "metadata", "state", "document">>

PutBytes(g) ==
    [schema |-> Some(SchemaJsonBytes(g.schema)), metadata |-> Some(MetadataToVec(g)),
     state |-> Some(StateToVec(g.state)), document |-> Some(ThinRaw(g))]

\* C30: in every step of a put that runs with no other call in progress, a
\* file of the entry that changes gets the bytes of the graph being put, one
\* file in a step, and the files before it in the order schema.json,
\* metadata.json, state.json, document already hold the bytes of this put; the
\* hot_cache of the process changes only in the step that returns Ok, with all
\* four files written.
C30_PutOrder ==
    [][\A p \in Procs :
         (arg[p].op = "put" /\ arg[p].alone /\ pc'[p] # pc[p]) =>
            LET new == PutBytes(arg[p].graph[1])
            IN /\ \A i \in 1..4 :
                    disk'[EntryFiles[i]] # disk[EntryFiles[i]] =>
                       /\ disk'[EntryFiles[i]] = new[EntryFiles[i]]
                       /\ \A j \in 1..(i - 1) : disk'[EntryFiles[j]] = disk[EntryFiles[j]]
                                                /\ disk[EntryFiles[j]] = new[EntryFiles[j]]
                       /\ \A j \in (i + 1)..4 : disk'[EntryFiles[j]] = disk[EntryFiles[j]]
               /\ hot'[p] # hot[p] =>
                       /\ ret'[p].res = "Ok"
                       /\ hot'[p] = arg[p].graph
                       /\ \A i \in 1..4 : disk'[EntryFiles[i]] = new[EntryFiles[i]]]_vars

\* A second put, of another graph than the one in the process's hot_cache
\* and on disk, is about to write its document, and no other call is in
\* progress.
C30_Witness ==
    \E p \in Procs :
        /\ pc[p] = "put_document" /\ arg[p].alone
        /\ hot[p] # None /\ hot[p] # arg[p].graph
        /\ disk.document # PutBytes(arg[p].graph[1]).document
        /\ disk.metadata = PutBytes(arg[p].graph[1]).metadata

\* The object directory and the four files of the entry
EntryOnDisk(d) == <<d.dir, d.schema, d.metadata, d.state, d.document>>

\* C31: a load which finds in the hot_cache an entry whose refs differ from
\* known_refs returns None, leaves the hot_cache of the process without an
\* entry for the object and leaves the directory and the four files as they
\* were; a load returns an entry from the hot_cache only when the refs of the
\* entry equal known_refs, and an emptied hot_cache is filled again only by a
\* put that returns Ok or by a load that read the files.
C31_StaleHotEntryDropped ==
    [][\A p \in Procs :
         /\ (pc[p] = "load_check" /\ pc'[p] = "idle" /\ disk.dir /\ hot[p] # None) =>
               IF arg[p].refs = hot[p][1].refs
               THEN ret'[p].res = "Some" /\ ret'[p].graph = hot[p] /\ hot'[p] = hot[p]
               ELSE /\ ret'[p].res = "None"
                    /\ hot'[p] = None
                    /\ EntryOnDisk(disk') = EntryOnDisk(disk)
         /\ (hot[p] = None /\ hot'[p] # None) =>
               \/ ret'[p].op = "put" /\ ret'[p].res = "Ok"
               \/ ret'[p].op = "load" /\ ret'[p].src = "disk" /\ ret'[p].res = "Some"]_vars

\* A load has just returned None because the hot_cache entry was stale: the
\* hot_cache of the process is empty and the entry is still on disk.
C31_Witness ==
    \E p \in Procs :
        /\ ret[p].op = "load" /\ ret[p].res = "None" /\ ret[p].src = "hot"
        /\ hot[p] = None
        /\ disk.document # None /\ disk.metadata # None
        /\ MetadataFromSlice(disk.metadata[1]).refs # ret[p].refs

\* C32: the valid history of a ValidatedAutomerge made by new() starts empty,
\* every propose_change that returns Ok appends the bytes of its change to it
\* and every propose_change that returns an error leaves it as it was: it is
\* the concatenation, in call order, of the bytes of the accepted changes.
C32_ValidHistoryIsAcceptedBytes ==
    /\ vaLast = NoCall => VAValidHistory(va) = << >>
    /\ vaLast.err = "none" =>
          VAValidHistory(va) = VAValidHistory(vaPrev) \o <<vaLast.bytes>>
    /\ vaLast.err \in {"InvalidChange", "InvalidatesSchema"} =>
          VAValidHistory(va) = VAValidHistory(vaPrev)

\* A change has just been rejected for the schema after two changes had been
\* accepted: the valid history holds the two accepted changes, and not the
\* rejected one.
C32_Witness ==
    /\ vaLast.err = "InvalidatesSchema"
    /\ Len(VAValidHistory(va)) = 2
    /\ \A i \in 1..2 : VAValidHistory(va)[i] # vaLast.bytes

\* A sequence in which no element occurs twice
NoDuplicates(s) == \A i, j \in 1..Len(s) : i # j => s[i] # s[j]

\* C33: at every step of the walk no commit id has two nodes in the graph and
\* no (parent, child) pair has two edges, however often the commit or the
\* pair is reached.
C33_OneNodePerCommitOneEdgePerPair ==
    /\ NoDuplicates(ev.g.nodes)
    /\ NoDuplicates(ev.g.edges)

\* A walk has ended in which two tip references pointed at the same commit,
\* so that each of its parent pairs was queued twice, and in which one commit
\* was reached as the parent of two different children.
C33_Witness ==
    /\ ev.built = "graph"
    /\ Len(ev.tips) = 2 /\ ev.tips[1] = ev.tips[2]
    /\ \E a, b \in Range(ev.g.edges) : a[1] = b[1] /\ a[2] # b[2]

\* The commits a change names in its trailers and as its author
SideLinksOf(change) ==
    {change.schema_commit, change.author_commit, change.containing_identity_commit}

\* The git parents of the node `child` which are not side-links of it and
\* which load as a Change
ChangeParents(repo, child) ==
    { parent \in Range(GitParents(repo, child)) :
        /\ parent \notin SideLinksOf(ChangeLoad(repo, child)[1])
        /\ ChangeLoad(repo, parent) # None }

\* C34: when load has finished, the edges of the graph are exactly the pairs
\* parent -> child with child a node and parent a git parent of child which
\* is not the schema commit, the author commit or the containing identity
\* commit of child and which loads as a Change; and every node is a tip
\* reference's commit or the parent end of such an edge, so that no commit is
\* a node for being a side-link.
C34_EdgesAreChangeParents ==
    ev.built # "none" =>
        /\ Range(ev.g.edges) =
              UNION { { <<parent, child>> : parent \in ChangeParents(ev.repo, child) } :
                        child \in Range(ev.g.nodes) }
        /\ Range(ev.g.nodes) =
              { c \in Range(ev.tips) : ChangeLoad(ev.repo, c) # None }
              \cup { ed[1] : ed \in Range(ev.g.edges) }

\* load has finished on a graph with a node whose author or containing
\* identity trailer names a change commit which is also one of its tips: that
\* commit is a node, reached through another child, and there is no edge from
\* it to the node.
C34_Witness ==
    /\ ev.built # "none"
    /\ \E child \in Range(ev.g.nodes) :
          \E parent \in Range(ev.repo[child].tips) :
             /\ parent \in {ev.repo[child].attrs.author, ev.repo[child].attrs.identity}
             /\ parent \in Range(ev.g.nodes)
             /\ <<parent, child>> \notin Range(ev.g.edges)

\* C35: acquire_lock terminates: a process in acquire_lock leaves it, also
\* when the process holding the lock file never moves again; it leaves it
\* with the lock or, without it, at the failed attempt number MaxAttempts + 1,
\* and the counter of failed attempts never passes MaxAttempts before.
C35_AcquireLockTerminates ==
    /\ [](\A p \in Procs : attempts[p] <= MaxAttempts)
    /\ [][\A p \in Procs :
            (pc[p] \in LockStages /\ pc'[p] \notin LockStages) =>
               \/ held'[p] /\ disk'.lock = p
               \/ ~held'[p] /\ disk.lock # 0 /\ attempts[p] + 1 = MaxAttempts + 1]_vars
    /\ \A p \in Procs : (pc[p] \in LockStages) ~> (pc[p] \notin LockStages)

\* The acquire_lock of a process has given up while the other process, still
\* in its call, holds the lock file.
C35_Witness ==
    \E p, q \in Procs :
        /\ p # q
        /\ held[q] /\ disk.lock = q /\ pc[q] \notin LockStages \cup {"idle"}
        /\ ret[p].timedout \/ arg[p].timedout
        /\ ~held[p]

\* C36: after create_object, retrieve_object or update_object has returned Ok
\* with the entry of the object written, the state in state.json is the JSON
\* projection of the document in the file `document`.
C36_StateIsProjectionOfDocument ==
    (/\ ob.last.op \in {"create", "retrieve", "update"}
     /\ ob.last.res = "Ok"
     /\ EntryStatus(ob.cache) = "readable") =>
        StateFromSlice(ob.cache.state[1]) = GetPatch(BackendLoad(ob.cache.document[1]))

\* C37: once a propose_change has been accepted, the JSON projection of the
\* document satisfies the schema and the backend holds exactly the accepted
\* changes, those of the valid history.
C37_ValidAndExactlyAccepted ==
    Len(VAValidHistory(va)) >= 1 =>
        /\ SchemaValidate(va.schema, VAState(va))
        /\ Range(BackendSave(va.backend)) = Range(VAValidHistory(va))

\* The histories a full evaluation of the object gives on the repository and
\* the references as they are, whatever the order of the references: what
\* retrieve_object computes with a NoOpCache
FullEvaluations ==
    UNION { { e.history : e \in { x \in LoadAndEvaluate(ob.repo, ob.schema, tip_refs) :
                                    x.built = "graph" } } :
              tip_refs \in RefOrders(ObjectReferences(ob)) }

\* C38: cache transparency: the document of the object retrieve_object
\* returns with a FileSystemCache has the state of the document a full
\* evaluation of the same repository and references gives.
C38_CacheTransparency ==
    (ob.last.op = "retrieve" /\ ob.last.res = "Ok") =>
        \E history \in FullEvaluations :
            GetPatch(BackendLoad(history)) = GetPatch(BackendLoad(ob.last.history))

\* C39: after a put has failed with an I/O error at create_dir_all or at one
\* of its writes (every put having held the lock), a load which is made
\* later, with no other call in progress, and which returns Some returns one
\* of the graphs that were put, with all its fields from that graph.
C39_FailedPutLeavesNoMixture ==
    [][\A p \in Procs :
         (/\ log.ioFailed /\ ~log.unlocked
          /\ arg[p].op = "load" /\ arg[p].alone
          /\ ret'[p].res = "Some") =>
             \E g \in PutGraphs : Snapshot(ret'[p].graph[1]) = Snapshot(g)]_vars

====
